---- MODULE Spec2Model ----
(***************************************************************************)
(* Sandboxed execution engine (S10/action/executor.py) and tool dispatch   *)
(* layer (S10/mcp_servers/multiMCP.py).                                    *)
(*                                                                         *)
(* Python values are records tagged by their type in field k; program      *)
(* texts are the trees ast.parse builds from them; strings are strings.    *)
(***************************************************************************)
EXTENDS Integers, Sequences, FiniteSets, TLC

(***************************************************************************)
(* Configuration of the executor.                                          *)
(***************************************************************************)
MAX_FUNCTIONS == 5

TIMEOUT_PER_FUNCTION == 500

\* the floor of the deadline, the literal 3 of max(3, ...)
MIN_TIMEOUT == 3

(***************************************************************************)
(* Bounds of the model.                                                    *)
(***************************************************************************)
\* longest candidate program, in top-level statements
MaxStmts == 2

\* most invocations of function_wrapper made on one MultiMCP directly
MaxCalls == 2

(***************************************************************************)
(* Python values.                                                          *)
(***************************************************************************)
None == [k |-> "None"]

PyInt(n) == [k |-> "int", n |-> n]

PyStr(s) == [k |-> "str", s |-> s]

PyBool(b) == [k |-> "bool", b |-> b]

PyDict(items) == [k |-> "dict", items |-> items]

PyTuple(items) == [k |-> "tuple", items |-> items]

PyList(items) == [k |-> "list", items |-> items]

\* a TextContent block of a tool reply
TextContent(text) == [text |-> text]

\* the reply object of session.call_tool
CallToolResult(content, isError) ==
    [k |-> "CallToolResult", content |-> content, isError |-> isError]

\* a function object living in the sandbox, and the coroutine a call of an
\* async function evaluates to when nothing awaits it
Function(name) == [k |-> "function", name |-> name]

Coroutine(name) == [k |-> "coroutine", name |-> name]

\* an exception: its class name, whether the class derives from Exception,
\* and its message
Fault(type, isException, msg) ==
    [type |-> type, isException |-> isException, msg |-> msg]

(***************************************************************************)
(* Strings: str.strip, str() and json.loads.                               *)
(***************************************************************************)
IsSpace(c) == c = " "

RECURSIVE LStrip(_)
LStrip(s) ==
    IF Len(s) > 0 /\ IsSpace(Head(s)) THEN LStrip(Tail(s)) ELSE s

RECURSIVE RStrip(_)
RStrip(s) ==
    IF Len(s) > 0 /\ IsSpace(SubSeq(s, Len(s), Len(s)))
    THEN RStrip(SubSeq(s, 1, Len(s) - 1))
    ELSE s

\* str.strip()
Strip(s) == RStrip(LStrip(s))

RECURSIVE Repr(_)
RECURSIVE ReprItems(_)
RECURSIVE ReprSeq(_)
\* repr() of a value, as str() of a container renders its members
Repr(v) ==
    CASE v.k = "None" -> "None"
      [] v.k = "int" -> ToString(v.n)
      [] v.k = "bool" -> IF v.b THEN "True" ELSE "False"
      [] v.k = "str" -> "'" \o v.s \o "'"
      [] v.k = "dict" -> "{" \o ReprItems(v.items) \o "}"
      [] v.k = "list" -> "[" \o ReprSeq(v.items) \o "]"
      [] v.k = "tuple" ->
            "(" \o ReprSeq(v.items) \o
            (IF Len(v.items) = 1 THEN "," ELSE "") \o ")"
      [] v.k = "CallToolResult" ->
            "content=[" \o
            (IF Len(v.content) = 0 THEN ""
             ELSE "TextContent(text='" \o v.content[1].text \o "')") \o
            "] isError=" \o (IF v.isError THEN "True" ELSE "False")
      [] v.k = "function" -> "<function " \o v.name \o ">"
      [] v.k = "module" -> "<module '" \o v.name \o "'>"
      [] v.k = "coroutine" -> "<coroutine object " \o v.name \o ">"

ReprItems(items) ==
    IF Len(items) = 0 THEN ""
    ELSE "'" \o items[1].key \o "': " \o Repr(items[1].val) \o
         (IF Len(items) = 1 THEN "" ELSE ", " \o ReprItems(Tail(items)))

ReprSeq(items) ==
    IF Len(items) = 0 THEN ""
    ELSE Repr(items[1]) \o
         (IF Len(items) = 1 THEN "" ELSE ", " \o ReprSeq(Tail(items)))

\* str() of a value
Str(v) == IF v.k = "str" THEN v.s ELSE Repr(v)

Digits == {"0", "1", "2", "3", "4", "5", "6", "7", "8", "9"}

DigitVal(c) ==
    CASE c = "0" -> 0 [] c = "1" -> 1 [] c = "2" -> 2 [] c = "3" -> 3
      [] c = "4" -> 4 [] c = "5" -> 5 [] c = "6" -> 6 [] c = "7" -> 7
      [] c = "8" -> 8 [] c = "9" -> 9

CharAt(s, i) == IF i >= 1 /\ i <= Len(s) THEN SubSeq(s, i, i) ELSE ""

RECURSIVE SkipSpace(_, _)
SkipSpace(s, i) == IF IsSpace(CharAt(s, i)) THEN SkipSpace(s, i + 1) ELSE i

RECURSIVE ScanDigits(_, _, _)
\* the integer that starts at position i, and the position after it
ScanDigits(s, i, acc) ==
    IF CharAt(s, i) \in Digits
    THEN ScanDigits(s, i + 1, 10 * acc + DigitVal(CharAt(s, i)))
    ELSE [n |-> acc, next |-> i]

RECURSIVE ScanString(_, _)
\* the position of the quote closing the string whose first character is at
\* position i, 0 when the string is not terminated
ScanString(s, i) ==
    IF i > Len(s) THEN 0
    ELSE IF CharAt(s, i) = "\"" THEN i
    ELSE ScanString(s, i + 1)

JsonFail == [ok |-> FALSE]

StartsWith(s, i, w) ==
    i + Len(w) - 1 <= Len(s) /\ SubSeq(s, i, i + Len(w) - 1) = w

RECURSIVE JsonValue(_, _)
RECURSIVE JsonMembers(_, _, _)
\* the JSON value that starts at position i: [ok, v, next]
JsonValue(s, i0) ==
    LET i == SkipSpace(s, i0)
        c == CharAt(s, i)
    IN  CASE StartsWith(s, i, "null") ->
                [ok |-> TRUE, v |-> None, next |-> i + 4]
          [] StartsWith(s, i, "true") ->
                [ok |-> TRUE, v |-> PyBool(TRUE), next |-> i + 4]
          [] StartsWith(s, i, "false") ->
                [ok |-> TRUE, v |-> PyBool(FALSE), next |-> i + 5]
          [] c \in Digits ->
                LET d == ScanDigits(s, i, 0)
                IN  [ok |-> TRUE, v |-> PyInt(d.n), next |-> d.next]
          [] c = "\"" ->
                LET j == ScanString(s, i + 1)
                IN  IF j = 0 THEN JsonFail
                    ELSE [ok |-> TRUE, v |-> PyStr(SubSeq(s, i + 1, j - 1)),
                          next |-> j + 1]
          [] c = "{" ->
                LET j == SkipSpace(s, i + 1)
                IN  IF CharAt(s, j) = "}"
                    THEN [ok |-> TRUE, v |-> PyDict(<<>>), next |-> j + 1]
                    ELSE JsonMembers(s, j, <<>>)
          [] OTHER -> JsonFail

\* the members of an object from position i on, after the members in acc
JsonMembers(s, i0, acc) ==
    LET i == SkipSpace(s, i0)
    IN  IF CharAt(s, i) # "\"" THEN JsonFail
        ELSE LET j == ScanString(s, i + 1)
                 c == IF j = 0 THEN 0 ELSE SkipSpace(s, j + 1)
             IN  IF j = 0 \/ CharAt(s, c) # ":" THEN JsonFail
                 ELSE LET val == JsonValue(s, c + 1)
                          key == SubSeq(s, i + 1, j - 1)
                          e == IF val.ok THEN SkipSpace(s, val.next) ELSE 0
                          \* a repeated key keeps its place and takes the
                          \* later value
                          put == IF \E n \in 1..Len(acc) : acc[n].key = key
                                 THEN [n \in 1..Len(acc) |->
                                         IF acc[n].key = key
                                         THEN [key |-> key, val |-> val.v]
                                         ELSE acc[n]]
                                 ELSE Append(acc, [key |-> key, val |-> val.v])
                      IN  IF ~val.ok THEN JsonFail
                          ELSE IF CharAt(s, e) = "}"
                          THEN [ok |-> TRUE, v |-> PyDict(put), next |-> e + 1]
                          ELSE IF CharAt(s, e) = ","
                          THEN JsonMembers(s, e + 1, put)
                          ELSE JsonFail

\* json.loads: the value the whole text denotes, or a failure
json_loads(s) ==
    LET r == JsonValue(s, 1)
    IN  IF r.ok /\ SkipSpace(s, r.next) = Len(s) + 1
        THEN [ok |-> TRUE, v |-> r.v]
        ELSE JsonFail

(***************************************************************************)
(* Program trees, as ast.parse builds them.                                *)
(***************************************************************************)
Constant(value) == [node |-> "Constant", value |-> value]

Name(id) == [node |-> "Name", id |-> id]

BinOp(left, right) == [node |-> "BinOp", left |-> left, right |-> right]

keyword(arg, value) == [arg |-> arg, value |-> value]

Call(func, args, keywords) ==
    [node |-> "Call", func |-> func, args |-> args, keywords |-> keywords]

Await(value) == [node |-> "Await", value |-> value]

Tuple(elts) == [node |-> "Tuple", elts |-> elts]

\* lambda: body
Lambda(body) == [node |-> "Lambda", body |-> body]

\* the value of a bare return statement
NoValue == [node |-> "NoValue"]

Assign(targets, value) ==
    [node |-> "Assign", targets |-> targets, value |-> value]

Return(value) == [node |-> "Return", value |-> value]

Expr(value) == [node |-> "Expr", value |-> value]

If(test, body) == [node |-> "If", test |-> test, body |-> body]

Module(body) == [node |-> "Module", body |-> body]

AsyncFunctionDef(name, body) ==
    [node |-> "AsyncFunctionDef", name |-> name, body |-> body]

RECURSIVE SumSeq(_)
SumSeq(ns) == IF Len(ns) = 0 THEN 0 ELSE Head(ns) + SumSeq(Tail(ns))

RECURSIVE CountCalls(_)
\* sum(isinstance(node, ast.Call) for node in ast.walk(tree))
CountCalls(n) ==
    LET Each(ns) == SumSeq([i \in 1..Len(ns) |-> CountCalls(ns[i])])
    IN  CASE n.node = "Call" ->
                1 + CountCalls(n.func) + Each(n.args) +
                Each([i \in 1..Len(n.keywords) |-> n.keywords[i].value])
          [] n.node = "BinOp" -> CountCalls(n.left) + CountCalls(n.right)
          [] n.node = "Await" -> CountCalls(n.value)
          [] n.node = "Lambda" -> CountCalls(n.body)
          [] n.node = "Tuple" -> Each(n.elts)
          [] n.node = "Assign" -> Each(n.targets) + CountCalls(n.value)
          [] n.node \in {"Return", "Expr"} -> CountCalls(n.value)
          [] n.node = "If" -> CountCalls(n.test) + Each(n.body)
          [] n.node \in {"Module", "AsyncFunctionDef"} -> Each(n.body)
          [] OTHER -> 0

\* ast.parse of a program text: the tree, or the SyntaxError of a text that
\* is not a program
ast_parse(text) ==
    IF text.syntax_ok
    THEN [ok |-> TRUE, tree |-> Module(text.body)]
    ELSE [ok |-> FALSE,
          fault |-> Fault("SyntaxError", TRUE,
                          "invalid syntax (<unknown>, line 1)")]

RECURSIVE CountTuples(_)
\* the tuples written in the tree
CountTuples(n) ==
    LET Each(ns) == SumSeq([i \in 1..Len(ns) |-> CountTuples(ns[i])])
    IN  CASE n.node = "Tuple" -> 1 + Each(n.elts)
          [] n.node = "Call" -> CountTuples(n.func) + Each(n.args)
          [] n.node \in {"Await", "Assign", "Return", "Expr"} ->
                CountTuples(n.value)
          [] n.node = "Module" -> Each(n.body)
          [] OTHER -> 0

\* a count that takes every tuple for a call to be launched
count_function_calls_and_tuples(text) ==
    LET p == ast_parse(text)
    IN  IF p.ok
        THEN [ok |-> TRUE, count |-> CountCalls(p.tree) + CountTuples(p.tree)]
        ELSE p

\* lines 47-49: the Call nodes of the parsed text
count_function_calls(text) ==
    LET p == ast_parse(text)
    IN  IF p.ok THEN [ok |-> TRUE, count |-> CountCalls(p.tree)] ELSE p

\* any(isinstance(node, ast.Return) for node in tree.body)
has_return(tree) ==
    \E i \in 1..Len(tree.body) : tree.body[i].node = "Return"

RECURSIVE AssignsResult(_)
\* a has_result that also looks inside nested blocks
AssignsResult(stmts) ==
    \E i \in 1..Len(stmts) :
        \/ /\ stmts[i].node = "Assign"
           /\ \E j \in 1..Len(stmts[i].targets) :
                 stmts[i].targets[j] = Name("result")
        \/ /\ stmts[i].node = "If"
           /\ AssignsResult(stmts[i].body)

has_result_nested(tree) == AssignsResult(tree.body)

\* any top-level Assign with a Name target whose id is "result"
has_result(tree) ==
    \E i \in 1..Len(tree.body) :
        /\ tree.body[i].node = "Assign"
        /\ \E j \in 1..Len(tree.body[i].targets) :
              /\ tree.body[i].targets[j].node = "Name"
              /\ tree.body[i].targets[j].id = "result"

\* the implicit result capture of run_user_code
AppendReturn(tree) ==
    IF ~has_return(tree) /\ has_result(tree)
    THEN Module(Append(tree.body, Return(Name("result"))))
    ELSE tree

\* the keyword values put before the positional arguments
ExtendedInFront(args, keywords) ==
    [i \in 1..Len(keywords) |-> keywords[i].value] \o args

\* line 24: node.args.extend(kw.value for kw in node.keywords)
Extended(args, keywords) ==
    args \o [i \in 1..Len(keywords) |-> keywords[i].value]

RECURSIVE KeywordStripper(_)
\* every call's keyword values appended to its positional arguments
KeywordStripper(n) ==
    LET Each(ns) == [i \in 1..Len(ns) |-> KeywordStripper(ns[i])]
    IN  CASE n.node = "Call" ->
                LET kws == [i \in 1..Len(n.keywords) |->
                              keyword(n.keywords[i].arg,
                                      KeywordStripper(n.keywords[i].value))]
                IN  Call(KeywordStripper(n.func), Extended(Each(n.args), kws),
                         <<>>)
          [] n.node = "BinOp" ->
                BinOp(KeywordStripper(n.left), KeywordStripper(n.right))
          [] n.node = "Await" -> Await(KeywordStripper(n.value))
          [] n.node = "Lambda" -> Lambda(KeywordStripper(n.body))
          [] n.node = "Tuple" -> Tuple(Each(n.elts))
          [] n.node = "Assign" ->
                Assign(Each(n.targets), KeywordStripper(n.value))
          [] n.node = "Return" -> Return(KeywordStripper(n.value))
          [] n.node = "Expr" -> Expr(KeywordStripper(n.value))
          [] n.node = "If" -> If(KeywordStripper(n.test), Each(n.body))
          [] n.node = "Module" -> Module(Each(n.body))
          [] OTHER -> n

RECURSIVE AwaitTransformer(_, _)
\* every call of a bare name in async_funcs wrapped in an await
AwaitTransformer(async_funcs, n) ==
    LET Each(ns) == [i \in 1..Len(ns) |-> AwaitTransformer(async_funcs, ns[i])]
    IN  CASE n.node = "Call" ->
                LET visited ==
                      Call(AwaitTransformer(async_funcs, n.func),
                           Each(n.args),
                           [i \in 1..Len(n.keywords) |->
                              keyword(n.keywords[i].arg,
                                      AwaitTransformer(async_funcs,
                                                       n.keywords[i].value))])
                IN  IF n.func.node = "Name" /\ n.func.id \in async_funcs
                    THEN Await(visited)
                    ELSE visited
          [] n.node = "BinOp" ->
                BinOp(AwaitTransformer(async_funcs, n.left),
                      AwaitTransformer(async_funcs, n.right))
          [] n.node = "Await" -> Await(AwaitTransformer(async_funcs, n.value))
          [] n.node = "Lambda" ->
                Lambda(AwaitTransformer(async_funcs, n.body))
          [] n.node = "Tuple" -> Tuple(Each(n.elts))
          [] n.node = "Assign" ->
                Assign(Each(n.targets), AwaitTransformer(async_funcs, n.value))
          [] n.node = "Return" ->
                Return(AwaitTransformer(async_funcs, n.value))
          [] n.node = "Expr" -> Expr(AwaitTransformer(async_funcs, n.value))
          [] n.node = "If" ->
                If(AwaitTransformer(async_funcs, n.test), Each(n.body))
          [] n.node = "Module" -> Module(Each(n.body))
          [] OTHER -> n

RECURSIVE AwaitInLambda(_, _)
\* the tree has an await in the body of a lambda, which is a function of
\* its own and not an async one
AwaitInLambda(n, inside) ==
    LET Some(ns) == \E i \in 1..Len(ns) : AwaitInLambda(ns[i], inside)
    IN  CASE n.node = "Await" -> inside \/ AwaitInLambda(n.value, inside)
          [] n.node = "Lambda" -> AwaitInLambda(n.body, TRUE)
          [] n.node = "Call" ->
                \/ AwaitInLambda(n.func, inside)
                \/ Some(n.args)
                \/ Some([i \in 1..Len(n.keywords) |-> n.keywords[i].value])
          [] n.node = "BinOp" ->
                AwaitInLambda(n.left, inside) \/ AwaitInLambda(n.right, inside)
          [] n.node = "Tuple" -> Some(n.elts)
          [] n.node \in {"Assign", "Return", "Expr"} ->
                AwaitInLambda(n.value, inside)
          [] n.node = "If" -> AwaitInLambda(n.test, inside) \/ Some(n.body)
          [] n.node \in {"Module", "AsyncFunctionDef"} -> Some(n.body)
          [] OTHER -> FALSE

\* a compile() that accepts a function without a body
compileNoBodyCheck(func_def) ==
    IF AwaitInLambda(func_def, FALSE)
    THEN [ok |-> FALSE,
          fault |-> Fault("SyntaxError", TRUE,
                          "'await' outside async function " \o
                          "(<user_code>, line 1)")]
    ELSE [ok |-> TRUE, unit |-> func_def]

\* compile() of the wrapper module: a function needs a body, and an await
\* needs an async function around it
compile(func_def) ==
    IF Len(func_def.body) = 0
    THEN [ok |-> FALSE,
          fault |-> Fault("ValueError", TRUE,
                          "empty body on AsyncFunctionDef")]
    ELSE IF AwaitInLambda(func_def, FALSE)
    THEN [ok |-> FALSE,
          fault |-> Fault("SyntaxError", TRUE,
                          "'await' outside async function " \o
                          "(<user_code>, line 1)")]
    ELSE [ok |-> TRUE, unit |-> func_def]

(***************************************************************************)
(* The execution namespace.                                                *)
(***************************************************************************)
\* the modules of ALLOWED_MODULES the programs of the model can name
ALLOWED_MODULES == {"math", "sqlite3"}

\* the names of the restricted __builtins__ the programs of the model call
Builtins == {"str", "len"}

\* the names the servers of the model register tools under that are not
\* names the sandbox holds anyway
ToolNames == {"t", "n", "m", "i"}

\* the keys the sandbox dictionary can hold
SandboxKeys ==
    ToolNames \cup ALLOWED_MODULES \cup
    {"final_answer", "parallel", "result_holder"}

\* a key the dictionary does not hold, a local variable not yet assigned
Unbound == [k |-> "unbound"]

PyModule(name) == [k |-> "module", name |-> name]

\* the proxy make_tool_proxy returns: calling it calls function_wrapper
\* with tool_name before the arguments
make_tool_proxy(tool_name) ==
    [k |-> "function", name |-> "_tool_fn", tool_name |-> tool_name]

\* the tools of the catalog, as get_all_tools lists them
get_all_tools(map) == {map[n].tool : n \in DOMAIN map}

\* one proxy per tool of the catalog, keyed by the tool's name
ToolFuncs(map) ==
    [n \in {tool.name : tool \in get_all_tools(map)} |-> make_tool_proxy(n)]

\* the sandbox dictionary: the proxies first, then the modules, the sink
\* and the fan-out written over them
build_safe_globals(mcp_funcs, multi_mcp) ==
    [key \in SandboxKeys |->
        IF key = "parallel" /\ multi_mcp THEN Function("parallel")
        ELSE IF key = "final_answer" THEN Function("final_answer")
        ELSE IF key \in ALLOWED_MODULES THEN PyModule(key)
        ELSE IF key \in DOMAIN mcp_funcs THEN mcp_funcs[key]
        ELSE Unbound]

(***************************************************************************)
(* Running the compiled unit.  An evaluation yields a value (st = "val"),  *)
(* a fault (st = "fault") or the tool call it is suspended on              *)
(* (st = "await"); env carries the local variables, the sandbox and the    *)
(* replies already delivered to the statement being run.                   *)
(***************************************************************************)
RECURSIVE AssignedNames(_)
\* the names a function body assigns, which the compiler makes its locals
AssignedNames(stmts) ==
    UNION {
        CASE stmts[i].node = "Assign" ->
                {stmts[i].targets[j].id : j \in 1..Len(stmts[i].targets)}
          [] stmts[i].node = "If" -> AssignedNames(stmts[i].body)
          [] OTHER -> {}
        : i \in 1..Len(stmts)}

TypeName(v) == IF v.k = "None" THEN "NoneType" ELSE v.k

Truthy(v) ==
    CASE v.k = "None" -> FALSE
      [] v.k = "bool" -> v.b
      [] v.k = "int" -> v.n # 0
      [] v.k = "str" -> v.s # ""
      [] v.k \in {"dict", "list", "tuple"} -> Len(v.items) > 0
      [] OTHER -> TRUE

Val(v, env) == [st |-> "val", v |-> v, env |-> env]

Raise(type, msg) == [st |-> "fault", fault |-> Fault(type, TRUE, msg)]

\* a name read whose failure does not say which name was read
LoadUnnamed(id, env) ==
    IF id \in env.scope
    THEN IF env.locals[id] # Unbound THEN Val(env.locals[id], env)
         ELSE Raise("UnboundLocalError",
                    "cannot access local variable '" \o id \o
                    "' where it is not associated with a value")
    ELSE IF id \in SandboxKeys /\ env.sandbox[id] # Unbound
    THEN Val(env.sandbox[id], env)
    ELSE IF id \in Builtins THEN Val(Function(id), env)
    ELSE Raise("NameError", "name is not defined")

\* a name read: a local of the unit, else a global of the sandbox, else a
\* builtin
Load(id, env) ==
    IF id \in env.scope
    THEN IF env.locals[id] # Unbound THEN Val(env.locals[id], env)
         ELSE Raise("UnboundLocalError",
                    "cannot access local variable '" \o id \o
                    "' where it is not associated with a value")
    ELSE IF id \in SandboxKeys /\ env.sandbox[id] # Unbound
    THEN Val(env.sandbox[id], env)
    ELSE IF id \in Builtins THEN Val(Function(id), env)
    ELSE Raise("NameError", "name '" \o id \o "' is not defined")

\* left + right
Add(l, r, env) ==
    IF l.k = "int" /\ r.k = "int" THEN Val(PyInt(l.n + r.n), env)
    ELSE IF l.k = "str" /\ r.k = "str" THEN Val(PyStr(l.s \o r.s), env)
    ELSE Raise("TypeError",
               "unsupported operand type(s) for +: '" \o TypeName(l) \o
               "' and '" \o TypeName(r) \o "'")

\* a sink that records the argument of its last call
final_answer_overwriting(x, env) ==
    Val(x, [env EXCEPT !.sandbox["result_holder"] = x])

\* the sink: safe_globals.setdefault("result_holder", x)
final_answer(x, env) ==
    IF env.sandbox["result_holder"] = Unbound
    THEN Val(x, [env EXCEPT !.sandbox["result_holder"] = x])
    ELSE Val(env.sandbox["result_holder"], env)

\* f(*args, **keywords)
Apply(f, args, kwnames, env) ==
    IF f.k # "function"
    THEN Raise("TypeError", "'" \o TypeName(f) \o "' object is not callable")
    ELSE CASE f.name = "_tool_fn" ->
                IF Len(kwnames) > 0
                THEN Raise("TypeError",
                           "_tool_fn() got an unexpected keyword argument '"
                           \o kwnames[1] \o "'")
                ELSE Val([k |-> "coroutine", name |-> "_tool_fn",
                          tool_name |-> f.tool_name, args |-> args], env)
           [] f.name = "parallel" ->
                IF Len(kwnames) > 0
                THEN Raise("TypeError",
                           "parallel() got an unexpected keyword argument '"
                           \o kwnames[1] \o "'")
                ELSE Val([k |-> "coroutine", name |-> "parallel",
                          args |-> args], env)
           [] f.name = "final_answer" ->
                IF Len(kwnames) > 0 \/ Len(args) # 1
                THEN Raise("TypeError",
                           "<lambda>() takes 1 positional argument")
                ELSE final_answer(args[1], env)
           [] f.name = "str" ->
                IF Len(kwnames) > 0 \/ Len(args) # 1
                THEN Raise("TypeError", "str() takes 1 argument")
                ELSE Val(PyStr(Str(args[1])), env)
           [] f.name = "len" ->
                IF Len(kwnames) > 0 \/ Len(args) # 1
                THEN Raise("TypeError", "len() takes exactly one argument")
                ELSE IF args[1].k = "str" THEN Val(PyInt(Len(args[1].s)), env)
                ELSE IF args[1].k = "dict"
                THEN Val(PyInt(Len(args[1].items)), env)
                ELSE Raise("TypeError",
                           "object of type '" \o TypeName(args[1]) \o
                           "' has no len()")

\* await v: the next delivered reply, or the suspension on the call or on
\* the fan-out
AwaitValue(v, env) ==
    IF v.k = "coroutine" /\ v.name \in {"_tool_fn", "parallel"}
    THEN IF env.used < Len(env.got)
         THEN Val(env.got[env.used + 1], [env EXCEPT !.used = @ + 1])
         ELSE IF v.name = "_tool_fn"
         THEN [st |-> "await", tool_name |-> v.tool_name, args |-> v.args]
         ELSE [st |-> "gather", tool_calls |-> v.args]
    ELSE Raise("TypeError",
               "object " \o TypeName(v) \o
               " can't be used in 'await' expression")

RECURSIVE Eval(_, _)
RECURSIVE EvalArgs(_, _, _)
Eval(e, env) ==
    CASE e.node = "Constant" -> Val(e.value, env)
      [] e.node = "Name" -> Load(e.id, env)
      [] e.node = "BinOp" ->
            LET l == Eval(e.left, env)
            IN  IF l.st # "val" THEN l
                ELSE LET r == Eval(e.right, l.env)
                     IN  IF r.st # "val" THEN r ELSE Add(l.v, r.v, r.env)
      [] e.node = "Call" ->
            LET f == Eval(e.func, env)
            IN  IF f.st # "val" THEN f
                ELSE LET kwvalues == [i \in 1..Len(e.keywords) |->
                                        e.keywords[i].value]
                         kwnames == [i \in 1..Len(e.keywords) |->
                                        e.keywords[i].arg]
                         a == EvalArgs(e.args \o kwvalues, f.env, <<>>)
                     IN  IF a.st # "val" THEN a
                         ELSE Apply(f.v, SubSeq(a.v, 1, Len(e.args)),
                                    kwnames, a.env)
      [] e.node = "Await" ->
            LET c == Eval(e.value, env)
            IN  IF c.st # "val" THEN c ELSE AwaitValue(c.v, c.env)
      [] e.node = "Tuple" ->
            LET a == EvalArgs(e.elts, env, <<>>)
            IN  IF a.st # "val" THEN a ELSE Val(PyTuple(a.v), a.env)
      [] e.node = "Lambda" -> Val(Function("<lambda>"), env)

\* the values of the argument expressions, left to right
EvalArgs(es, env, acc) ==
    IF Len(es) = 0 THEN [st |-> "val", v |-> acc, env |-> env]
    ELSE LET h == Eval(Head(es), env)
         IN  IF h.st # "val" THEN h
             ELSE EvalArgs(Tail(es), h.env, Append(acc, h.v))

RECURSIVE ExecStmt(_, _)
RECURSIVE ExecBlock(_, _)
\* one statement: st = "next" when control goes on to the next statement,
\* "return" when the unit returns v
ExecStmt(s, env) ==
    CASE s.node = "Assign" ->
            LET r == Eval(s.value, env)
            IN  IF r.st # "val" THEN r
                ELSE [st |-> "next",
                      env |-> [r.env EXCEPT !.locals =
                                 [id \in DOMAIN @ |->
                                    IF \E j \in 1..Len(s.targets) :
                                          s.targets[j].id = id
                                    THEN r.v ELSE @[id]]]]
      [] s.node = "Return" ->
            IF s.value = NoValue
            THEN [st |-> "return", v |-> None, env |-> env]
            ELSE LET r == Eval(s.value, env)
                 IN  IF r.st # "val" THEN r
                     ELSE [st |-> "return", v |-> r.v, env |-> r.env]
      [] s.node = "Expr" ->
            LET r == Eval(s.value, env)
            IN  IF r.st # "val" THEN r ELSE [st |-> "next", env |-> r.env]
      [] s.node = "If" ->
            LET c == Eval(s.test, env)
            IN  IF c.st # "val" THEN c
                ELSE IF Truthy(c.v) THEN ExecBlock(s.body, c.env)
                ELSE [st |-> "next", env |-> c.env]

ExecBlock(stmts, env) ==
    IF Len(stmts) = 0 THEN [st |-> "next", env |-> env]
    ELSE LET r == ExecStmt(Head(stmts), env)
         IN  IF r.st # "next" THEN r ELSE ExecBlock(Tail(stmts), r.env)

(***************************************************************************)
(* The dispatcher: MultiMCP.function_wrapper and MultiMCP.call_tool.       *)
(***************************************************************************)
Range(seq) == {seq[i] : i \in 1..Len(seq)}

\* a pairing of the names with the arguments taken from the last one back
ZipDictBackwards(param_names, args) ==
    PyDict([i \in 1..Len(param_names) |->
              [key |-> param_names[i], val |-> args[Len(args) + 1 - i]]])

\* dict(zip(param_names, args))
ZipDict(param_names, args) ==
    PyDict([i \in 1..Len(param_names) |->
              [key |-> param_names[i], val |-> args[i]]])

\* the request payload for the arguments, bound in declared order, or the
\* dispatch error of a wrong argument count
BindArguments(tool_name, schema, args) ==
    LET Mismatch(n) ==
            Raise("ValueError",
                  tool_name \o " expects " \o ToString(n) \o " args, got " \o
                  ToString(Len(args)))
    IN  IF "input" \in Range(schema.properties)
        THEN IF Len(schema.defs) = 0
             THEN \* a schema without definitions: schema["$defs"] fails
                  Raise("KeyError", "'$defs'")
             ELSE LET param_names == schema.defs[1].properties
                  IN  IF Len(param_names) # Len(args)
                      THEN Mismatch(Len(param_names))
                      ELSE [st |-> "val",
                            v |-> PyDict(<<[key |-> "input",
                                            val |-> ZipDict(param_names,
                                                            args)]>>)]
        ELSE LET param_names == schema.properties
             IN  IF Len(param_names) # Len(args)
                 THEN Mismatch(Len(param_names))
                 ELSE [st |-> "val", v |-> ZipDict(param_names, args)]

IdentChars ==
    {"a", "b", "c", "d", "e", "f", "g", "h", "i", "j", "k", "l", "m", "n",
     "o", "p", "q", "r", "s", "t", "u", "v", "w", "x", "y", "z", "_"}
    \cup Digits

RECURSIVE ScanIdent(_, _)
\* the position after the identifier that starts at position i
ScanIdent(s, i) ==
    IF CharAt(s, i) \in IdentChars THEN ScanIdent(s, i + 1) ELSE i

RECURSIVE ScanQuote(_, _, _)
\* the position of the quote q closing the string that starts at position
\* i, 0 when the string is not terminated
ScanQuote(s, i, q) ==
    IF i > Len(s) THEN 0
    ELSE IF CharAt(s, i) = q THEN i
    ELSE ScanQuote(s, i + 1, q)

\* func.attr
Attribute(value, attr) ==
    [node |-> "Attribute", value |-> value, attr |-> attr]

\* the text is not an expression
NoParse == [ok |-> FALSE, next |-> 0, node |-> NoValue]

\* the expression node read, and the position after it
Parsed(node, next) == [ok |-> TRUE, next |-> next, node |-> node]

\* the argument list is not well formed
NoArguments == [ok |-> FALSE, next |-> 0, args |-> <<>>, keywords |-> <<>>]

RECURSIVE Trailers(_, _)
RECURSIVE Arguments(_, _, _, _)

\* an integer, a string or a name that starts at position i
Atom(s, i) ==
    IF CharAt(s, i) \in Digits
    THEN Parsed(Constant(PyInt(ScanDigits(s, i, 0).n)),
                ScanDigits(s, i, 0).next)
    ELSE IF CharAt(s, i) \in {"'", "\""}
    THEN IF ScanQuote(s, i + 1, CharAt(s, i)) = 0 THEN NoParse
         ELSE Parsed(Constant(PyStr(
                        SubSeq(s, i + 1,
                               ScanQuote(s, i + 1, CharAt(s, i)) - 1))),
                     ScanQuote(s, i + 1, CharAt(s, i)) + 1)
    ELSE IF CharAt(s, i) \in IdentChars
    THEN Parsed(Name(SubSeq(s, i, ScanIdent(s, i) - 1)), ScanIdent(s, i))
    ELSE NoParse

\* the expression that starts at or after position i: an atom, then calls
\* of it and attributes of it
Expression(s, i) == Trailers(s, Atom(s, SkipSpace(s, i)))

\* the call of r with the argument list a
CallTrailer(s, r, a) ==
    IF a.ok THEN Trailers(s, Parsed(Call(r.node, a.args, a.keywords), a.next))
    ELSE NoParse

\* what follows the expression r at position j: an argument list, an
\* attribute, or something that is not part of the expression
TrailerAt(s, r, j) ==
    IF CharAt(s, j) = "("
    THEN CallTrailer(s, r, Arguments(s, j + 1, <<>>, <<>>))
    ELSE IF CharAt(s, j) = "." /\ ScanIdent(s, j + 1) > j + 1
    THEN Trailers(s, Parsed(Attribute(r.node,
                                      SubSeq(s, j + 1,
                                             ScanIdent(s, j + 1) - 1)),
                            ScanIdent(s, j + 1)))
    ELSE r

Trailers(s, r) == IF r.ok THEN TrailerAt(s, r, SkipSpace(s, r.next)) ELSE r

\* the position after the "=" of the keyword argument that starts at
\* position i, 0 when no keyword argument starts there
KeywordEnd(s, i) ==
    LET k == SkipSpace(s, ScanIdent(s, i))
    IN  IF ScanIdent(s, i) > i /\ CharAt(s, i) \notin Digits
           /\ CharAt(s, k) = "=" /\ CharAt(s, k + 1) # "="
        THEN k + 1 ELSE 0

\* after an argument, at position j: a comma and the rest of the list, or
\* the closing parenthesis
Separator(s, j, args, keywords) ==
    IF CharAt(s, j) = "," THEN Arguments(s, j + 1, args, keywords)
    ELSE IF CharAt(s, j) = ")"
    THEN [ok |-> TRUE, next |-> j + 1, args |-> args, keywords |-> keywords]
    ELSE NoArguments

\* the keyword argument arg=e
KeywordArgument(s, arg, e, args, keywords) ==
    IF e.ok
    THEN Separator(s, SkipSpace(s, e.next), args,
                   Append(keywords, keyword(arg, e.node)))
    ELSE NoArguments

\* the positional argument e
PositionalArgument(s, e, args, keywords) ==
    IF e.ok
    THEN Separator(s, SkipSpace(s, e.next), Append(args, e.node), keywords)
    ELSE NoArguments

\* the argument list from position i up to its closing parenthesis; a
\* positional argument after a keyword argument is a syntax error
Arguments(s, i, args, keywords) ==
    IF CharAt(s, i) = " " THEN Arguments(s, i + 1, args, keywords)
    ELSE IF CharAt(s, i) = ")"
    THEN [ok |-> TRUE, next |-> i + 1, args |-> args, keywords |-> keywords]
    ELSE IF KeywordEnd(s, i) # 0
    THEN KeywordArgument(s, SubSeq(s, i, ScanIdent(s, i) - 1),
                         Expression(s, KeywordEnd(s, i)), args, keywords)
    ELSE IF Len(keywords) # 0 THEN NoArguments
    ELSE PositionalArgument(s, Expression(s, i), args, keywords)

\* ast.parse(text, mode='eval').body for the expressions made of integers,
\* strings, names, attributes and calls; anything else in the text is
\* taken as a syntax error
ast_parse_eval(s, r) ==
    IF r.ok /\ SkipSpace(s, r.next) > Len(s) THEN r ELSE NoParse

\* the name Python gives the class of a node
ClassName(n) == "ast." \o n.node

RECURSIVE literal_eval_all(_, _)
\* line 118: ast.literal_eval of each argument in turn; a node that is not
\* a literal is refused (the message ends with the address of the node,
\* which is left out)
literal_eval_all(nodes, acc) ==
    IF Len(nodes) = 0 THEN [st |-> "val", v |-> acc]
    ELSE IF Head(nodes).node = "Constant"
    THEN literal_eval_all(Tail(nodes), Append(acc, Head(nodes).value))
    ELSE Raise("ValueError",
               "malformed node or string on line 1: <" \o
               ClassName(Head(nodes)) \o " object>")

\* line 120: the failure is raised again as a ValueError that cites
\* tool_name as it stands when the failure happens
ParseFailure(tool_name, e) ==
    Raise("ValueError",
          "Failed to parse function string '" \o tool_name \o "': " \o e)

\* a reading of the call text that takes the arguments from the last one
\* back
CallArgumentsBackwards(id, a) ==
    IF a.st = "val"
    THEN [st |-> "val", tool_name |-> id,
          args |-> [i \in 1..Len(a.v) |-> a.v[Len(a.v) + 1 - i]]]
    ELSE ParseFailure(id, a.fault.msg)

\* lines 117-120: the name is taken from the call and the arguments are
\* evaluated as literals; the keyword arguments of the call are not looked
\* at
CallArguments(id, a) ==
    IF a.st = "val" THEN [st |-> "val", tool_name |-> id, args |-> a.v]
    ELSE ParseFailure(id, a.fault.msg)

\* lines 114-120: the text must parse, as a call of a bare name (the
\* wording Python gives a syntax error varies with the error and the
\* version; one wording stands for all)
ParsedCall(tool_name, r) ==
    IF ~r.ok
    THEN ParseFailure(tool_name, "invalid syntax (<unknown>, line 1)")
    ELSE IF r.node.node # "Call"
    THEN ParseFailure(tool_name, "Invalid function call format")
    ELSE IF r.node.func.node # "Name"
    THEN ParseFailure(tool_name, "Invalid function call format")
    ELSE CallArguments(r.node.func.id, literal_eval_all(r.node.args, <<>>))

\* line 112: a text that ends with a parenthesis and holds an opening one
LooksLikeCall(stripped) ==
    /\ Len(stripped) > 0
    /\ SubSeq(stripped, Len(stripped), Len(stripped)) = ")"
    /\ \E i \in 1..Len(stripped) : CharAt(stripped, i) = "("

\* lines 111-120 on the stripped text
ParseStripped(tool_name, stripped) ==
    IF LooksLikeCall(stripped)
    THEN ParsedCall(tool_name,
                    ast_parse_eval(stripped, Expression(stripped, 1)))
    ELSE [st |-> "val", tool_name |-> tool_name, args |-> <<>>]

\* lines 110-120: a single string that looks like a call is parsed into the
\* tool name and the literal arguments; any other invocation is taken as
\* given
ParseCallString(tool_name, args) ==
    IF Len(args) # 0
    THEN [st |-> "val", tool_name |-> tool_name, args |-> args]
    ELSE ParseStripped(tool_name, Strip(tool_name))

\* a lookup failure that does not say which tool was asked for
ToolNotFoundUnnamed(tool_name) == Raise("ValueError", "Tool not found.")

\* lines 124-126: the dispatch error of a name the catalog does not hold
ToolNotFound(tool_name) ==
    Raise("ValueError", "Tool '" \o tool_name \o "' not found.")

\* lines 85-89 of call_tool: the config of the server that owns the tool
CallToolEntry(map, tool_name) ==
    IF tool_name \notin DOMAIN map
    THEN Raise("ValueError",
               "Tool '" \o tool_name \o "' not found on any server.")
    ELSE [st |-> "val", config |-> map[tool_name].config]

\* lines 123-147 and 85-95: the tool of the call f is looked up and the
\* payload built, then call_tool looks up the server; or the dispatch error
\* is raised
Prepared(map, f) ==
    IF f.st # "val" THEN f
    ELSE IF f.tool_name \notin DOMAIN map THEN ToolNotFound(f.tool_name)
    ELSE LET b == BindArguments(f.tool_name,
                                map[f.tool_name].tool.inputSchema, f.args)
             c == CallToolEntry(map, f.tool_name)
         IN  IF b.st # "val" THEN b
             ELSE IF c.st # "val" THEN c
             ELSE [st |-> "val", tool_name |-> f.tool_name,
                   config |-> c.config, params |-> b.v]

\* function_wrapper up to the remote call: the string form parsed, the
\* tool looked up and the payload built, then call_tool up to the spawning
\* of the server; or the dispatch error raised
PrepareCall(map, tool_name, args) ==
    Prepared(map, ParseCallString(tool_name, args))

\* a normalization without the rule of the result key
NormalizeReplyNoResultKey(result) ==
    IF Len(result.content) = 0 THEN result
    ELSE LET parsed == json_loads(Strip(result.content[1].text))
         IN  IF ~parsed.ok THEN result
             ELSE IF parsed.v.k = "dict" /\ Len(parsed.v.items) = 1
             THEN parsed.v.items[1].val
             ELSE parsed.v

\* the value function_wrapper returns for the reply of call_tool
NormalizeReply(result) ==
    IF Len(result.content) = 0 THEN result
    ELSE LET parsed == json_loads(Strip(result.content[1].text))
         IN  IF ~parsed.ok THEN result
             ELSE IF parsed.v.k = "dict"
             THEN IF \E i \in 1..Len(parsed.v.items) :
                        parsed.v.items[i].key = "result"
                  THEN LET i == CHOOSE i \in 1..Len(parsed.v.items) :
                                   parsed.v.items[i].key = "result"
                       IN  parsed.v.items[i].val
                  ELSE IF Len(parsed.v.items) = 1
                  THEN parsed.v.items[1].val
                  ELSE parsed.v
             ELSE parsed.v

(***************************************************************************)
(* The envelopes of run_user_code.                                         *)
(***************************************************************************)
\* datetime.now().strftime(...) taken on entry
start_timestamp == "2025-01-01 00:00:00"

\* str(round(time.perf_counter() - start_time, 3))
TotalTime(elapsed) == ToString(elapsed) \o ".0"

ErrorEnvelope(msg, elapsed) ==
    [status |-> "error", error |-> msg, execution_time |-> start_timestamp,
     total_time |-> TotalTime(elapsed)]

SuccessEnvelope(result, elapsed) ==
    [status |-> "success", result |-> result,
     execution_time |-> start_timestamp, total_time |-> TotalTime(elapsed)]

\* the return of the complexity gate
GateEnvelope(count, elapsed) ==
    ErrorEnvelope("Too many functions (" \o ToString(count) \o " > " \o
                  ToString(MAX_FUNCTIONS) \o ")", elapsed)

\* an inner handler that files the message under the key of a success
InnerHandlerResultKey(e, elapsed) ==
    [status |-> "error", result |-> e.type \o ": " \o e.msg,
     execution_time |-> start_timestamp, total_time |-> TotalTime(elapsed)]

\* except Exception of the inner try, around the run and the classification
InnerHandler(e, elapsed) ==
    ErrorEnvelope(e.type \o ": " \o e.msg, elapsed)

\* except asyncio.TimeoutError of the outer try
OuterTimeoutHandler(count, elapsed) ==
    ErrorEnvelope("Execution timed out after " \o
                  ToString(count * TIMEOUT_PER_FUNCTION) \o " seconds",
                  elapsed)

\* except Exception of the outer try
OuterHandler(e, elapsed) == ErrorEnvelope(e.msg, elapsed)

Returned(envelope) == [kind |-> "returned", envelope |-> envelope]

Raised(e) == [kind |-> "raised", fault |-> e]

\* an inner try that lets the timeout pass and reports the absent value
RaiseInInnerTryTimeoutLost(e, count, elapsed) ==
    IF e.isException /\ e.type = "TimeoutError"
    THEN Returned(SuccessEnvelope("None", elapsed))
    ELSE IF e.isException THEN Returned(InnerHandler(e, elapsed))
    ELSE Raised(e)

\* what becomes of a fault raised inside the inner try
RaiseInInnerTry(e, count, elapsed) ==
    IF e.isException THEN Returned(InnerHandler(e, elapsed))
    ELSE Raised(e)

\* an outer try without its catch-all handler
RaiseInOuterTryTimeoutOnly(e, count, elapsed) ==
    IF e.isException /\ e.type = "TimeoutError"
    THEN Returned(OuterTimeoutHandler(count, elapsed))
    ELSE Raised(e)

\* what becomes of a fault raised inside the outer try, outside the inner
RaiseInOuterTry(e, count, elapsed) ==
    IF e.isException /\ e.type = "TimeoutError"
    THEN IF count < 0
         THEN Raised(Fault("UnboundLocalError", TRUE,
                           "cannot access local variable 'func_count'"))
         ELSE Returned(OuterTimeoutHandler(count, elapsed))
    ELSE IF e.isException THEN Returned(OuterHandler(e, elapsed))
    ELSE Raised(e)

\* a deadline without its floor
TimeoutNoFloor(count) == count * TIMEOUT_PER_FUNCTION

\* max(3, func_count * TIMEOUT_PER_FUNCTION)
Timeout(count) ==
    IF count * TIMEOUT_PER_FUNCTION > MIN_TIMEOUT
    THEN count * TIMEOUT_PER_FUNCTION
    ELSE MIN_TIMEOUT

\* a fallback chain that asks the sink first
ResultValueSinkFirst(ret, sbx) ==
    IF sbx["result_holder"] # Unbound THEN sbx["result_holder"]
    ELSE IF ret # None THEN ret
    ELSE PyStr("None")

\* returned if returned is not None else sandbox.get("result_holder", "None")
ResultValue(ret, sbx) ==
    IF ret # None THEN ret
    ELSE IF sbx["result_holder"] # Unbound THEN sbx["result_holder"]
    ELSE PyStr("None")

\* hasattr(v, "isError") and getattr(v, "isError", False)
HasErrorFlag(v) == v.k = "CallToolResult" /\ v.isError

\* an extraction that forgets to strip the text
ErrorMessageUnstripped(v) ==
    IF Len(v.content) > 0 THEN v.content[1].text ELSE Str(v)

\* result_value.content[0].text.strip(), or str(result_value) when that
\* raises
ErrorMessage(v) ==
    IF Len(v.content) > 0 THEN Strip(v.content[1].text) ELSE Str(v)

\* the envelope for the value the run produced
Classify(result_value, elapsed) ==
    IF HasErrorFlag(result_value)
    THEN ErrorEnvelope(ErrorMessage(result_value), elapsed)
    ELSE SuccessEnvelope(Str(result_value), elapsed)

(***************************************************************************)
(* The candidate programs and the replies of the servers.                  *)
(***************************************************************************)
ToolCall(name, args) == Call(Name(name), args, <<>>)

One == Constant(PyInt(1))

\* result = 2 + 2
StmtResultSum ==
    Assign(<<Name("result")>>, BinOp(Constant(PyInt(2)), Constant(PyInt(2))))

\* result = None
StmtResultNone == Assign(<<Name("result")>>, Constant(None))

\* result = t(1)
StmtResultTool == Assign(<<Name("result")>>, ToolCall("t", <<One>>))

\* x = t(a=1)
StmtKeywordTool ==
    Assign(<<Name("x")>>, Call(Name("t"), <<>>, <<keyword("a", One)>>))

\* return m(b=2, a=1)
StmtKeywordsOnly ==
    Return(Call(Name("m"), <<>>,
                <<keyword("b", Constant(PyInt(2))), keyword("a", One)>>))

\* return n(2, a=1)
StmtKeywordAfter ==
    Return(Call(Name("n"), <<Constant(PyInt(2))>>, <<keyword("a", One)>>))

\* f = lambda: t(1)
StmtLambdaTool == Assign(<<Name("f")>>, Lambda(ToolCall("t", <<One>>)))

\* return final_answer(1)
StmtReturnFinal == Return(ToolCall("final_answer", <<One>>))

\* return parallel(1)
StmtReturnParallel == Return(ToolCall("parallel", <<One>>))

\* return math(1)
StmtReturnMath == Return(ToolCall("math", <<One>>))

\* return t(3)
StmtReturnTool == Return(ToolCall("t", <<Constant(PyInt(3))>>))

\* return 7
StmtReturnConst == Return(Constant(PyInt(7)))

\* return
StmtReturnBare == Return(NoValue)

\* final_answer("a")
StmtFinalAnswer == Expr(ToolCall("final_answer", <<Constant(PyStr("a"))>>))

\* final_answer(t(2))
StmtFinalTool ==
    Expr(ToolCall("final_answer",
                  <<ToolCall("t", <<Constant(PyInt(2))>>)>>))

\* if True: result = 5
StmtNestedResult ==
    If(Constant(PyBool(TRUE)),
       <<Assign(<<Name("result")>>, Constant(PyInt(5)))>>)

\* if True: return 7
StmtNestedReturn ==
    If(Constant(PyBool(TRUE)), <<Return(Constant(PyInt(7)))>>)

\* x = str(str(str(1)))
StmtThreeCalls ==
    Assign(<<Name("x")>>,
           ToolCall("str", <<ToolCall("str", <<ToolCall("str", <<One>>)>>)>>))

\* f()
StmtUndefined == Expr(ToolCall("f", <<>>))

\* t()
StmtBadArgs == Expr(ToolCall("t", <<>>))

\* ("t", arg)
ToolTuple(arg) == Tuple(<<Constant(PyStr("t")), Constant(PyInt(arg))>>)

\* result = parallel(("t", 1), ("t", 2))
StmtParallel ==
    Assign(<<Name("result")>>,
           ToolCall("parallel", <<ToolTuple(1), ToolTuple(2)>>))

\* result = await parallel(("t", 1), ("t", 2))
StmtAwaitParallel ==
    Assign(<<Name("result")>>,
           Await(ToolCall("parallel", <<ToolTuple(1), ToolTuple(2)>>)))

\* x = await parallel(("t",), ("t", 2))
StmtAwaitParallelBad ==
    Assign(<<Name("x")>>,
           Await(ToolCall("parallel",
                          <<Tuple(<<Constant(PyStr("t"))>>), ToolTuple(2)>>)))

\* result = await parallel(("t", 1), ("t", 2), ("t", 3), ("t", 4), ("t", 5),
\*                         ("t", 6))
StmtAwaitParallelSix ==
    Assign(<<Name("result")>>,
           Await(ToolCall("parallel",
                          <<ToolTuple(1), ToolTuple(2), ToolTuple(3),
                            ToolTuple(4), ToolTuple(5), ToolTuple(6)>>)))

\* the statements that use the fan-out
ParallelStmts == {StmtParallel, StmtAwaitParallel, StmtAwaitParallelBad}

Stmts ==
    {StmtResultSum, StmtResultNone, StmtResultTool, StmtKeywordTool,
     StmtReturnTool, StmtReturnConst, StmtReturnBare, StmtFinalAnswer,
     StmtFinalTool, StmtNestedResult, StmtNestedReturn, StmtThreeCalls,
     StmtUndefined, StmtBadArgs}

\* the program texts: the ones that parse, of up to MaxStmts statements,
\* the first of which may use the fan-out, and a text that is not a program
Programs ==
    {[syntax_ok |-> TRUE, body |-> b] :
        b \in UNION {[1..n -> Stmts] : n \in 0..MaxStmts}}
    \cup {[syntax_ok |-> TRUE, body |-> <<p>> \o b] :
             p \in ParallelStmts,
             b \in UNION {[1..n -> Stmts] : n \in 0..(MaxStmts - 1)}}
    \cup {[syntax_ok |-> FALSE, body |-> <<>>]}

\* the statements that call tools with keyword arguments, by a name the
\* sandbox holds whatever the catalog is, or from inside a lambda
NameStmts ==
    {StmtKeywordTool, StmtKeywordsOnly, StmtKeywordAfter, StmtReturnFinal,
     StmtReturnParallel, StmtReturnMath, StmtLambdaTool}

\* the program texts of one statement, the empty text, and a text that is
\* not a program
NamePrograms ==
    {[syntax_ok |-> TRUE, body |-> <<stmt>>] :
        stmt \in Stmts \cup ParallelStmts \cup NameStmts}
    \cup {[syntax_ok |-> TRUE, body |-> <<>>],
          [syntax_ok |-> FALSE, body |-> <<>>]}

\* the replies a server can give to a tools/call request
Replies ==
    {CallToolResult(<<TextContent("7")>>, FALSE),
     CallToolResult(<<TextContent("ok")>>, FALSE),
     CallToolResult(<<TextContent("null")>>, FALSE),
     CallToolResult(<<TextContent("{\"result\": 4}")>>, FALSE),
     CallToolResult(<<TextContent(" boom ")>>, TRUE),
     CallToolResult(<<TextContent("404")>>, TRUE),
     CallToolResult(<<>>, TRUE)}

\* the replies the servers give to the direct callers of a MultiMCP
ServedReplies ==
    {CallToolResult(<<TextContent("7")>>, FALSE),
     CallToolResult(<<TextContent("{\"result\": 4}")>>, FALSE),
     CallToolResult(<<>>, TRUE)}

\* the catalog: one server, whose tool t declares the parameter a
Catalog ==
    [n \in {"t"} |->
        [config |-> [id |-> "s1", script |-> "s1.py"],
         tool |-> [name |-> n,
                   inputSchema |-> [properties |-> <<"a">>, defs |-> <<>>]]]]

\* the configs a MultiMCP is constructed with
server_configs ==
    <<[id |-> "s1", script |-> "s1.py"], [id |-> "s2", script |-> "s2.py"]>>

\* the tool of server s1: a flat schema with the parameter a
ToolT == Catalog["t"].tool

\* the tool of server s2: the parameters a and b wrapped under input
ToolN ==
    [name |-> "n",
     inputSchema |-> [properties |-> <<"input">>,
                      defs |-> <<[properties |-> <<"a", "b">>]>>]]

\* a tool of server s2: a flat schema with the parameters a and b
ToolM ==
    [name |-> "m",
     inputSchema |-> [properties |-> <<"a", "b">>, defs |-> <<>>]]

\* a tool of server s1: a flat schema whose one parameter is named input
ToolI ==
    [name |-> "i", inputSchema |-> [properties |-> <<"input">>, defs |-> <<>>]]

\* a tool of server s2 that is named t as the tool of server s1 is: a flat
\* schema with the parameter x
ToolX ==
    [name |-> "t", inputSchema |-> [properties |-> <<"x">>, defs |-> <<>>]]

\* the tools a server lists when it is asked
ListedTools(config) ==
    IF config.id = "s1" THEN <<ToolT, ToolI>> ELSE <<ToolN, ToolM, ToolX>>

\* the reply object of session.list_tools
ListToolsResult(tools) == [k |-> "ListToolsResult", tools |-> tools]

\* the invocations of function_wrapper the callers make: by position and
\* by call text, of registered and of unknown names
Invocations ==
    {[tool_name |-> "t", args |-> <<PyInt(1)>>],
     [tool_name |-> "n", args |-> <<PyInt(1), PyInt(2)>>],
     [tool_name |-> "u", args |-> <<PyInt(1)>>],
     [tool_name |-> "t(1)", args |-> <<>>],
     [tool_name |-> "n(1, 2)", args |-> <<>>],
     [tool_name |-> "u(1)", args |-> <<>>]}

\* the call texts a caller passes as the single string
CallTexts ==
    {"t(1)", " t( 1 ) ", "t (1)", "t(1,)", "t('a')", "t(1, 2)", "t()", "t",
     "t(1", "n(1, 2)", "n(2, 1)", "n(1)", "m(1, 2)", "i('x')", "u(1)",
     "t(1, a=u(2))", "t(a=1)", "t(a=1, 2)", "a.b(1)", "t(1)(2)", "t(u(1))",
     "t(x)", "t(1, x.y)", "t(1))", "t(,)", "t(1 2)"}

\* the invocations of function_wrapper one caller may make: every call
\* text, and the same calls by position
CallForms ==
    {[tool_name |-> text, args |-> <<>>] : text \in CallTexts}
    \cup {[tool_name |-> "t", args |-> <<PyInt(1)>>],
          [tool_name |-> "t", args |-> <<PyStr("a")>>],
          [tool_name |-> "t", args |-> <<PyInt(1), PyInt(2)>>],
          [tool_name |-> "n", args |-> <<PyInt(1), PyInt(2)>>],
          [tool_name |-> "n", args |-> <<PyInt(2), PyInt(1)>>],
          [tool_name |-> "n", args |-> <<PyInt(1)>>],
          [tool_name |-> "m", args |-> <<PyInt(1), PyInt(2)>>],
          [tool_name |-> "m", args |-> <<PyInt(2), PyInt(1)>>],
          [tool_name |-> "i", args |-> <<PyStr("x")>>],
          [tool_name |-> "i", args |-> <<PyStr("x"), PyStr("y")>>],
          [tool_name |-> "u", args |-> <<PyInt(1)>>]}

\* the texts of the first content block of a reply
ReplyTexts ==
    {"7", "ok", "null", "true", "\"s\"", "", "{}", "{\"result\": 4}",
     " {\"result\": 4} ", "{\"result\": null}", "{\"a\": 5}",
     "{\"a\": 1, \"b\": 2}", "{\"result\": 4, \"a\": 1}",
     "{\"a\": 1, \"result\": 4}", "{\"a\": {\"result\": 1}}",
     "{\"result\": {\"a\": 1, \"b\": 2}}", "{\"result\": 4"}

\* the replies a server can give to one tools/call request: one content
\* block or two, flagged as an error or not, or no content block at all
ReplyForms ==
    {CallToolResult(<<TextContent(text)>>, e) :
        text \in ReplyTexts, e \in BOOLEAN}
    \cup {CallToolResult(<<TextContent(text), TextContent("8")>>, FALSE) :
             text \in {"7", "ok"}}
    \cup {CallToolResult(<<>>, e) : e \in BOOLEAN}

(***************************************************************************)
(* The state of one run_user_code(code, multi_mcp).                        *)
(***************************************************************************)
VARIABLES
    code,          \* the program text submitted
    tool_map,      \* multi_mcp.tool_map, the catalog
    server_tools,  \* multi_mcp.server_tools, the tools listed per server
    probe,         \* initialize: the config being probed and its session
    pc,            \* where run_user_code stands
    stages,        \* what the execution has done so far
    func_count,    \* the call count, -1 before it is assigned
    sandbox,       \* the sandbox dictionary
    tree,          \* the program tree being rewritten, then run
    timeout,       \* the deadline of the run in seconds, 0 before it is set
    unit,          \* the running __main: next statement, locals, replies
    pending,       \* the tool call the unit is suspended on
    calls,         \* every invocation of function_wrapper, in order
    sessions,      \* every server session opened, in order
    clock,         \* seconds since run_user_code was entered
    returned,      \* the value __main returned
    result_value,  \* the value chosen for the envelope
    outcome,       \* how run_user_code ended
    session,       \* AgentLoop.run: the AgentSession's plans and state
    session_memory,\* AgentLoop.run: the memory of recent failed steps
    step,          \* AgentLoop.run: the plan version of the current step
    at             \* where AgentLoop.run stands

\* the state of the MultiMCP object besides its calls and sessions
mcp == <<tool_map, server_tools, probe>>

\* the state of one AgentLoop.run
agent == <<session, session_memory, step, at>>

vars ==
    <<code, mcp, pc, stages, func_count, sandbox, tree, timeout, unit,
      pending, calls, sessions, clock, returned, result_value, outcome,
      agent>>

\* no query has been given to the agent loop
NoRun ==
    /\ session = [plan_versions |-> <<>>,
                  state |-> [original_goal_achieved |-> FALSE,
                             final_answer |-> ""]]
    /\ session_memory = <<>>
    /\ step = 0
    /\ at = "idle"

NoCall == [tool_name |-> "", args |-> <<>>]

Running == [kind |-> "running"]

Init ==
    /\ code \in Programs
    /\ tool_map = Catalog
    /\ server_tools = [id \in {"s1"} |-> <<ToolT>>]
    /\ probe = [config |-> Len(server_configs) + 1, session |-> 0]
    /\ pc = "count"
    /\ stages = {}
    /\ func_count = -1
    /\ sandbox = [key \in SandboxKeys |-> Unbound]
    /\ tree = Module(<<>>)
    /\ timeout = 0
    /\ unit = [ip |-> 0, locals |-> [id \in {} |-> Unbound], got |-> <<>>]
    /\ pending = NoCall
    /\ calls = <<>>
    /\ sessions = <<>>
    /\ clock = 0
    /\ returned = Unbound
    /\ result_value = Unbound
    /\ outcome = Running
    /\ NoRun

\* run_user_code ends: it returns an envelope or the fault leaves it
Finish(o) == /\ outcome' = o
             /\ pc' = "done"

\* a gate that already rejects a program at the ceiling
TooManyAtCeiling(count) == count >= MAX_FUNCTIONS

\* if func_count > MAX_FUNCTIONS
TooMany(count) == count > MAX_FUNCTIONS

\* lines 88-95: the calls are counted and the gate decides
Gate ==
    /\ pc = "count"
    /\ LET c == count_function_calls(code)
       IN  IF ~c.ok
           THEN /\ Finish(RaiseInOuterTry(c.fault, func_count, clock))
                /\ stages' = stages \cup {"count_fault"}
                /\ UNCHANGED func_count
           ELSE /\ func_count' = c.count
                /\ IF TooMany(c.count)
                   THEN /\ Finish(Returned(GateEnvelope(c.count, clock)))
                        /\ stages' = stages \cup {"counted", "rejected"}
                   ELSE /\ pc' = "build"
                        /\ stages' = stages \cup {"counted"}
                        /\ UNCHANGED outcome
    /\ UNCHANGED <<agent, code, mcp, sandbox, tree, timeout, unit, pending,
                   calls, sessions, clock, returned, result_value>>

\* lines 97-103: the proxies and the sandbox are built; importing a module
\* of the allow-list fails where the interpreter was built without it
BuildEnvironment ==
    /\ pc = "build"
    /\ \E importable \in BOOLEAN :
          IF importable
          THEN /\ sandbox' = build_safe_globals(ToolFuncs(tool_map), TRUE)
               /\ pc' = "rewrite"
               /\ stages' = stages \cup {"proxies", "sandbox"}
               /\ UNCHANGED outcome
          ELSE /\ Finish(RaiseInOuterTry(
                           Fault("ModuleNotFoundError", TRUE,
                                 "No module named '_sqlite3'"),
                           func_count, clock))
               /\ stages' = stages \cup {"proxies", "build_fault"}
               /\ UNCHANGED sandbox
    /\ UNCHANGED <<agent, code, mcp, func_count, tree, timeout, unit, pending,
                   calls, sessions, clock, returned, result_value>>

\* a rewriting without the pass that suspends on tool calls
RewrittenNoAwait(text, async_funcs) ==
    KeywordStripper(AppendReturn(ast_parse(text).tree))

\* the tree lines 105-120 make of the text
Rewritten(text, async_funcs) ==
    AwaitTransformer(async_funcs,
                     KeywordStripper(AppendReturn(ast_parse(text).tree)))

\* lines 105-120: the text is parsed again and the tree rewritten
Rewrite ==
    /\ pc = "rewrite"
    /\ tree' = Rewritten(code, DOMAIN ToolFuncs(tool_map))
    /\ pc' = "compile"
    /\ stages' = stages \cup {"rewritten"}
    /\ UNCHANGED <<agent, code, mcp, func_count, sandbox, timeout, unit,
                   pending, calls, sessions, clock, returned, result_value,
                   outcome>>

\* lines 122-136: the body is wrapped and compiled, __main is defined and
\* started under the deadline
Compile ==
    /\ pc = "compile"
    /\ LET c == compile(AsyncFunctionDef("__main", tree.body))
       IN  IF ~c.ok
           THEN /\ Finish(RaiseInOuterTry(c.fault, func_count, clock))
                /\ stages' = stages \cup {"compile_fault"}
                /\ UNCHANGED <<timeout, unit>>
           ELSE /\ timeout' = Timeout(func_count)
                /\ unit' = [ip |-> 1,
                            locals |-> [id \in AssignedNames(c.unit.body) |->
                                          Unbound],
                            got |-> <<>>]
                /\ pc' = "run"
                /\ stages' = stages \cup {"compiled", "started"}
                /\ UNCHANGED outcome
    /\ UNCHANGED <<agent, code, mcp, func_count, sandbox, tree, pending,
                   calls, sessions, clock, returned, result_value>>

\* __main runs its next statement, up to the statement's end or to the tool
\* call it has to wait for
Step ==
    /\ pc = "run"
    /\ IF unit.ip > Len(tree.body)
       THEN /\ returned' = None
            /\ pc' = "classify"
            /\ UNCHANGED <<sandbox, unit, pending, outcome, stages>>
       ELSE LET env == [locals |-> unit.locals, sandbox |-> sandbox,
                        got |-> unit.got, used |-> 0,
                        scope |-> DOMAIN unit.locals]
                r == ExecStmt(tree.body[unit.ip], env)
            IN  CASE r.st = "next" ->
                       /\ unit' = [ip |-> unit.ip + 1,
                                   locals |-> r.env.locals, got |-> <<>>]
                       /\ sandbox' = r.env.sandbox
                       /\ stages' = stages \cup {"statement"}
                       /\ UNCHANGED <<pc, pending, returned, outcome>>
                  [] r.st = "return" ->
                       /\ returned' = r.v
                       /\ sandbox' = r.env.sandbox
                       /\ pc' = "classify"
                       /\ stages' = stages \cup {"statement"}
                       /\ UNCHANGED <<unit, pending, outcome>>
                  [] r.st = "await" ->
                       /\ pending' = [tool_name |-> r.tool_name,
                                      args |-> r.args]
                       /\ pc' = "dispatch"
                       /\ stages' = stages \cup {"statement"}
                       /\ UNCHANGED <<sandbox, unit, returned, outcome>>
                  [] r.st = "gather" ->
                       /\ pending' = [tool_name |-> "parallel",
                                      args |-> r.tool_calls]
                       /\ pc' = "gather"
                       /\ stages' = stages \cup {"statement"}
                       /\ UNCHANGED <<sandbox, unit, returned, outcome>>
                  [] r.st = "fault" ->
                       /\ Finish(RaiseInInnerTry(r.fault, func_count, clock))
                       /\ stages' = stages \cup {"statement", "unit_fault"}
                       /\ UNCHANGED <<sandbox, unit, pending, returned>>
    /\ UNCHANGED <<agent, code, mcp, func_count, tree, timeout, calls, sessions,
                   clock, result_value>>

\* one invocation of function_wrapper: the session it runs over (0 while it
\* has none), how it stands, what it returned or raised, and its rank among
\* the invocations that have ended
FunctionCall(tool_name, args) ==
    [tool_name |-> tool_name, args |-> args, session |-> 0,
     st |-> "connecting", result |-> None, fault |-> Fault("", FALSE, ""),
     seq |-> 0]

\* the invocation owner of a session: the n-th call of op
Owner(op, n) == [op |-> op, n |-> n]

\* a server process just spawned and its ClientSession entered: the
\* handshake is outstanding, no request has been sent
Session(owner, tool_name, config, params) ==
    [owner |-> owner, tool_name |-> tool_name, server |-> config.id,
     params |-> params, state |-> "handshake", requests |-> <<>>,
     reply |-> None]

\* a transport that hands out a session already made for the same server
ClientSessionPooled(ss, s) ==
    IF \E i \in 1..Len(ss) : ss[i].server = s.server
    THEN [sessions |-> ss,
          id |-> CHOOSE i \in 1..Len(ss) : ss[i].server = s.server]
    ELSE [sessions |-> Append(ss, s), id |-> Len(ss) + 1]

\* async with stdio_client(params) ... async with ClientSession(read, write):
\* a new process and a new session for this invocation
ClientSession(ss, s) == [sessions |-> Append(ss, s), id |-> Len(ss) + 1]

\* session.initialize() has returned and the invocation sends its request
SendRequest(ss, id, method, by) ==
    [ss EXCEPT ![id].state = "request",
               ![id].requests = Append(@, [method |-> method, by |-> by])]

\* a teardown that leaves the process and the session behind
CloseSessionLeak(ss, id) == ss

\* the async with blocks are left: session and process are torn down
CloseSession(ss, id) == [ss EXCEPT ![id].state = "closed"]

\* the sessions that are not torn down
Live(ss) == {i \in 1..Len(ss) : ss[i].state # "closed"}

\* the invocation ends: it is ranked after the ones that ended before
Ended(cs, k, st, result, fault) ==
    LET ranks == {cs[j].seq : j \in 1..Len(cs)}
        last == CHOOSE n \in ranks \cup {0} :
                    \A m \in ranks \cup {0} : m <= n
    IN  [cs EXCEPT ![k].st = st, ![k].result = result, ![k].fault = fault,
                   ![k].seq = last + 1]

\* function_wrapper is entered for tool_name and args and runs up to its
\* first wait: the dispatch error is raised, or call_tool has spawned the
\* server and entered the session
Launch(map, cs, ss, tool_name, args) ==
    LET k == Len(cs) + 1
        c == FunctionCall(tool_name, args)
        p == PrepareCall(map, tool_name, args)
    IN  IF p.st # "val"
        THEN [calls |-> Ended(Append(cs, c), k, "raised", None, p.fault),
              sessions |-> ss]
        ELSE LET o == ClientSession(ss, Session(Owner("call_tool", k),
                                                p.tool_name, p.config,
                                                p.params))
             IN  [calls |-> Append(cs, [c EXCEPT !.session = o.id]),
                  sessions |-> o.sessions]

\* a cancellation that reaches the call launched last only
OutstandingLast(cs) ==
    {k \in 1..Len(cs) :
        k = Len(cs) /\ cs[k].st \in {"connecting", "requested"}}

\* the invocations that have neither returned nor raised
Outstanding(cs) ==
    {k \in 1..Len(cs) : cs[k].st \in {"connecting", "requested"}}

RECURSIVE CloseAll(_, _)
\* the sessions of ids are torn down
CloseAll(ss, ids) ==
    IF ids = {} THEN ss
    ELSE LET id == CHOOSE i \in ids : TRUE
         IN  CloseAll(CloseSession(ss, id), ids \ {id})

\* the invocations of ks are cancelled where they wait
Cancelled(cs, ks) ==
    [k \in 1..Len(cs) |->
        IF k \in ks THEN [cs[k] EXCEPT !.st = "cancelled"] ELSE cs[k]]

\* a dispatch whose error is not raised into the unit, which gets None for
\* the call and goes on
DispatchErrorDropped ==
    /\ pc = "dispatch"
    /\ LET l == Launch(tool_map, calls, sessions, pending.tool_name,
                       pending.args)
           c == l.calls[Len(l.calls)]
       IN  /\ calls' = l.calls
           /\ sessions' = l.sessions
           /\ IF c.st = "raised"
              THEN /\ unit' = [unit EXCEPT !.got = Append(@, None)]
                   /\ pc' = "run"
                   /\ stages' = stages \cup {"dispatch_fault"}
              ELSE /\ pc' = "await"
                   /\ stages' = stages \cup {"session"}
                   /\ UNCHANGED unit
    /\ UNCHANGED <<agent, code, mcp, func_count, sandbox, tree, timeout, pending,
                   clock, returned, result_value, outcome>>

\* the unit calls a proxy: function_wrapper is entered for the pending
\* call; a dispatch error is raised into the unit, or the unit waits for
\* the session
Dispatch ==
    /\ pc = "dispatch"
    /\ LET l == Launch(tool_map, calls, sessions, pending.tool_name,
                       pending.args)
           c == l.calls[Len(l.calls)]
       IN  /\ calls' = l.calls
           /\ sessions' = l.sessions
           /\ IF c.st = "raised"
              THEN /\ Finish(RaiseInInnerTry(c.fault, func_count, clock))
                   /\ stages' = stages \cup {"dispatch_fault"}
              ELSE /\ pc' = "await"
                   /\ stages' = stages \cup {"session"}
                   /\ UNCHANGED outcome
    /\ UNCHANGED <<agent, code, mcp, func_count, sandbox, tree, timeout, unit,
                   pending, clock, returned, result_value>>

\* a handshake after which the tool of the invocation is no longer
\* registered
HandshakeUnregisters ==
    /\ \E k \in 1..Len(calls) :
          /\ calls[k].st = "connecting"
          /\ calls' = [calls EXCEPT ![k].st = "requested"]
          /\ sessions' = SendRequest(sessions, calls[k].session, "tools/call",
                                     Owner("call_tool", k))
          /\ tool_map' =
                [n \in DOMAIN tool_map \
                          {sessions[calls[k].session].tool_name} |->
                    tool_map[n]]
    /\ stages' = stages \cup {"handshake"}
    /\ UNCHANGED <<agent, code, server_tools, probe, pc, func_count, sandbox, tree,
                   timeout, unit, pending, clock, returned, result_value,
                   outcome>>

\* session.initialize() returns for an invocation, which sends its one
\* request over its session
Handshake ==
    /\ \E k \in 1..Len(calls) :
          /\ calls[k].st = "connecting"
          /\ calls' = [calls EXCEPT ![k].st = "requested"]
          /\ sessions' = SendRequest(sessions, calls[k].session, "tools/call",
                                     Owner("call_tool", k))
    /\ stages' = stages \cup {"handshake"}
    /\ UNCHANGED <<agent, code, mcp, pc, func_count, sandbox, tree, timeout,
                   unit, pending, clock, returned, result_value, outcome>>

\* the server replies within the deadline to the call the unit waits for:
\* the session is closed and function_wrapper returns the normalized reply
\* to the unit
Reply ==
    /\ pc = "await"
    /\ clock + 1 < timeout
    /\ LET k == Len(calls)
           id == calls[k].session
       IN  /\ calls[k].st = "requested"
           /\ \E reply \in Replies :
                 /\ unit' = [unit EXCEPT
                               !.got = Append(@, NormalizeReply(reply))]
                 /\ sessions' = CloseSession(
                                   [sessions EXCEPT ![id].reply = reply], id)
                 /\ calls' = Ended(calls, k, "returned",
                                   NormalizeReply(reply), calls[k].fault)
    /\ clock' = clock + 1
    /\ pc' = "run"
    /\ pending' = NoCall
    /\ stages' = stages \cup {"reply"}
    /\ UNCHANGED <<agent, code, mcp, func_count, sandbox, tree, timeout,
                   returned, result_value, outcome>>

\* the handshake or the request of the call the unit waits for fails: the
\* session is closed and the failure is raised into the unit
SessionFail ==
    /\ pc = "await"
    /\ LET k == Len(calls)
           e == Fault("McpError", TRUE, "Connection closed")
       IN  /\ calls[k].st \in {"connecting", "requested"}
           /\ sessions' = CloseSession(sessions, calls[k].session)
           /\ calls' = Ended(calls, k, "raised", None, e)
           /\ Finish(RaiseInInnerTry(e, func_count, clock))
    /\ stages' = stages \cup {"session_fault"}
    /\ UNCHANGED <<agent, code, mcp, func_count, sandbox, tree, timeout, unit,
                   pending, clock, returned, result_value>>

\* for tool_name, *args in tool_calls: the name and the arguments of each
\* element, or the fault of the first element that cannot be unpacked
Unpack(tool_calls) ==
    LET Iterable(v) == v.k \in {"tuple", "list"}
        bad == {i \in 1..Len(tool_calls) :
                  ~Iterable(tool_calls[i]) \/ Len(tool_calls[i].items) = 0}
        first == CHOOSE i \in bad : \A j \in bad : i <= j
    IN  IF bad = {}
        THEN [st |-> "val",
              v |-> [i \in 1..Len(tool_calls) |->
                       [tool_name |-> Str(Head(tool_calls[i].items)),
                        args |-> Tail(tool_calls[i].items)]]]
        ELSE IF ~Iterable(tool_calls[first])
        THEN Raise("TypeError",
                   "cannot unpack non-iterable " \o
                   TypeName(tool_calls[first]) \o " object")
        ELSE Raise("ValueError",
                   "not enough values to unpack (expected at least 1, got 0)")

RECURSIVE LaunchAll(_, _, _, _)
\* asyncio.gather makes a task of every function_wrapper coroutine; the
\* tasks start in the order given and each runs up to its first wait
LaunchAll(map, cs, ss, tcs) ==
    IF Len(tcs) = 0 THEN [calls |-> cs, sessions |-> ss]
    ELSE LET l == Launch(map, cs, ss, Head(tcs).tool_name, Head(tcs).args)
         IN  LaunchAll(map, l.calls, l.sessions, Tail(tcs))

\* the unit awaits parallel(*tool_calls): the tuples are unpacked and the
\* calls launched
Gather ==
    /\ pc = "gather"
    /\ LET u == Unpack(pending.args)
       IN  IF u.st # "val"
           THEN /\ Finish(RaiseInInnerTry(u.fault, func_count, clock))
                /\ stages' = stages \cup {"unit_fault"}
                /\ UNCHANGED <<unit, pending, calls, sessions>>
           ELSE IF Len(u.v) = 0
           THEN /\ unit' = [unit EXCEPT !.got = Append(@, PyList(<<>>))]
                /\ pc' = "run"
                /\ pending' = NoCall
                /\ stages' = stages \cup {"gathered"}
                /\ UNCHANGED <<calls, sessions, outcome>>
           ELSE LET l == LaunchAll(tool_map, calls, sessions, u.v)
                IN  /\ calls' = l.calls
                    /\ sessions' = l.sessions
                    /\ pc' = "join"
                    /\ stages' = stages \cup {"launched"}
                    /\ UNCHANGED <<unit, pending, outcome>>
    /\ UNCHANGED <<agent, code, mcp, func_count, sandbox, tree, timeout, clock,
                   returned, result_value>>

\* the calls the pending parallel has launched
Awaited == (Len(calls) - Len(pending.args) + 1)..Len(calls)

\* the call the unit itself runs and waits for, outside any task
Inline(k) == pc = "await" /\ k = Len(calls)

\* the server replies, with one of replies, to a call that runs as a task:
\* the session is closed and the task ends with the normalized reply
TaskReplyWith(replies) ==
    /\ \E k \in 1..Len(calls) :
          /\ calls[k].st = "requested"
          /\ ~Inline(k)
          /\ \E reply \in replies :
                /\ sessions' = CloseSession(
                                  [sessions EXCEPT
                                     ![calls[k].session].reply = reply],
                                  calls[k].session)
                /\ calls' = Ended(calls, k, "returned",
                                  NormalizeReply(reply), calls[k].fault)
    /\ IF pc = "join"
       THEN clock + 1 < timeout /\ clock' = clock + 1
       ELSE UNCHANGED clock
    /\ stages' = stages \cup
                    (IF pc = "done" THEN {"task_reply", "orphan_reply"}
                     ELSE {"task_reply"})
    /\ UNCHANGED <<agent, code, mcp, pc, func_count, sandbox, tree, timeout,
                   unit, pending, returned, result_value, outcome>>

TaskReply == TaskReplyWith(Replies)

\* the handshake or the request of a call that runs as a task fails: the
\* session is closed and the task ends with the failure
TaskFail ==
    /\ \E k \in 1..Len(calls) :
          /\ calls[k].st \in {"connecting", "requested"}
          /\ ~Inline(k)
          /\ sessions' = CloseSession(sessions, calls[k].session)
          /\ calls' = Ended(calls, k, "raised", None,
                            Fault("McpError", TRUE, "Connection closed"))
    /\ stages' = stages \cup
                    (IF pc = "done" THEN {"task_fault", "orphan_fault"}
                     ELSE {"task_fault"})
    /\ UNCHANGED <<agent, code, mcp, pc, func_count, sandbox, tree, timeout,
                   unit, pending, clock, returned, result_value, outcome>>

\* a fan-out that returns the results in the order the calls completed
GatherResultsAsCompleted(cs, ks) ==
    LET n == Cardinality(ks)
        Rank(k) == Cardinality({j \in ks : cs[j].seq <= cs[k].seq})
    IN  [i \in 1..n |-> cs[CHOOSE k \in ks : Rank(k) = i].result]

\* the list asyncio.gather returns: the results in the order of the calls
GatherResults(cs, ks) ==
    LET first == CHOOSE k \in ks : \A j \in ks : k <= j
    IN  [i \in 1..Cardinality(ks) |-> cs[first + i - 1].result]

\* a fan-out that cancels the calls still running when one has faulted
SiblingsCancelledOnFault(cs, ks) == ks \cap Outstanding(cs)

\* the calls asyncio.gather cancels when one of them has faulted: none
SiblingsOnFault(cs, ks) == {}

\* a call of the fan-out has ended with a fault, or all have ended
JoinReady ==
    \/ \E k \in Awaited : calls[k].st = "raised"
    \/ \A k \in Awaited : calls[k].st = "returned"

\* asyncio.gather ends and the unit resumes: the first fault is raised into
\* the unit, or the list of results is delivered
Join ==
    /\ pc = "join"
    /\ JoinReady
    /\ LET raised == {k \in Awaited : calls[k].st = "raised"}
       IN  IF raised # {}
           THEN LET first == CHOOSE k \in raised :
                                \A j \in raised : calls[k].seq <= calls[j].seq
                    hit == SiblingsOnFault(calls, Awaited)
                IN  /\ Finish(RaiseInInnerTry(calls[first].fault, func_count,
                                              clock))
                    /\ calls' = Cancelled(calls, hit)
                    /\ sessions' = CloseAll(sessions,
                                            {calls[k].session : k \in hit})
                    /\ stages' = stages \cup {"gather_fault"}
                    /\ UNCHANGED <<unit, pending>>
           ELSE /\ unit' = [unit EXCEPT
                              !.got = Append(@, PyList(GatherResults(
                                                         calls, Awaited)))]
                /\ pc' = "run"
                /\ pending' = NoCall
                /\ stages' = stages \cup {"gathered"}
                /\ UNCHANGED <<calls, sessions, outcome>>
    /\ UNCHANGED <<agent, code, mcp, func_count, sandbox, tree, timeout, clock,
                   returned, result_value>>

\* the deadline of wait_for elapses while the unit waits: the unit is
\* cancelled with every call it waits for, which closes their sessions, and
\* wait_for raises TimeoutError
DeadlineElapses ==
    /\ pc = "await" \/ (pc = "join" /\ ~JoinReady)
    /\ clock' = timeout
    /\ sessions' = CloseAll(sessions,
                            {calls[k].session : k \in Outstanding(calls)})
    /\ calls' = Cancelled(calls, Outstanding(calls))
    /\ Finish(RaiseInInnerTry(Fault("TimeoutError", TRUE, ""), func_count,
                              timeout))
    /\ stages' = stages \cup {"deadline"}
    /\ UNCHANGED <<agent, code, mcp, func_count, sandbox, tree, timeout, unit,
                   pending, returned, result_value>>

\* the caller's task is cancelled, or the process interrupted, while the
\* unit waits: a fault that is not of class Exception
Interrupt ==
    /\ pc \in {"await", "join"}
    /\ sessions' = CloseAll(sessions,
                            {calls[k].session : k \in Outstanding(calls)})
    /\ calls' = Cancelled(calls, Outstanding(calls))
    /\ \E type \in {"CancelledError", "KeyboardInterrupt"} :
          Finish(RaiseInInnerTry(Fault(type, FALSE, ""), func_count, clock))
    /\ stages' = stages \cup {"interrupt"}
    /\ UNCHANGED <<agent, code, mcp, func_count, sandbox, tree, timeout, unit,
                   pending, clock, returned, result_value>>

\* lines 138-163: the value of the run is chosen and classified
ClassifyResult ==
    /\ pc = "classify"
    /\ result_value' = ResultValue(returned, sandbox)
    /\ Finish(Returned(Classify(result_value', clock)))
    /\ stages' = stages \cup {"classified"}
    /\ UNCHANGED <<agent, code, mcp, func_count, sandbox, tree, timeout, unit,
                   pending, calls, sessions, clock, returned>>

Next ==
    \/ Gate
    \/ BuildEnvironment
    \/ Rewrite
    \/ Compile
    \/ Step
    \/ Dispatch
    \/ Handshake
    \/ Reply
    \/ SessionFail
    \/ Gather
    \/ TaskReply
    \/ TaskFail
    \/ Join
    \/ DeadlineElapses
    \/ Interrupt
    \/ ClassifyResult

Spec == Init /\ [][Next]_vars

(***************************************************************************)
(* The life of a MultiMCP object on its own: constructed, initialize()     *)
(* probes the servers one after the other, then callers invoke             *)
(* function_wrapper, each invocation running as a task of its own.         *)
(***************************************************************************)
InitMCP ==
    /\ code = [syntax_ok |-> TRUE, body |-> <<>>]
    /\ tool_map = <<>>
    /\ server_tools = <<>>
    /\ probe = [config |-> 1, session |-> 0]
    /\ pc = "initialize"
    /\ stages = {}
    /\ func_count = -1
    /\ sandbox = [key \in SandboxKeys |-> Unbound]
    /\ tree = Module(<<>>)
    /\ timeout = 0
    /\ unit = [ip |-> 0, locals |-> [id \in {} |-> Unbound], got |-> <<>>]
    /\ pending = NoCall
    /\ calls = <<>>
    /\ sessions = <<>>
    /\ clock = 0
    /\ returned = Unbound
    /\ result_value = Unbound
    /\ outcome = Running
    /\ NoRun

\* the loop of initialize goes on to the next config, or is over
NextConfig ==
    /\ probe' = [config |-> probe.config + 1, session |-> 0]
    /\ pc' = IF probe.config = Len(server_configs) THEN "serve"
             ELSE "initialize"

\* an entry that leaves a name to the server that registered it first
EnteredIfNew(map, config, tool) ==
    [n \in DOMAIN map \cup {tool.name} |->
        IF n \in DOMAIN map THEN map[n]
        ELSE [config |-> config, tool |-> tool]]

\* lines 71-74: the tool is entered under its name with the config of its
\* server, over what the name held before
Entered(map, config, tool) ==
    [n \in DOMAIN map \cup {tool.name} |->
        IF n = tool.name THEN [config |-> config, tool |-> tool]
        ELSE map[n]]

RECURSIVE Register(_, _, _)
\* line 70: every listed tool is entered, in the order of the list
Register(map, config, tools) ==
    IF Len(tools) = 0 THEN map
    ELSE Register(Entered(map, config, Head(tools)), config, Tail(tools))

\* lines 75-78: every listed tool is appended to the list of its server
ListUnder(lists, config, tools) ==
    IF Len(tools) = 0 THEN lists
    ELSE [id \in DOMAIN lists \cup {config.id} |->
            (IF id \in DOMAIN lists THEN lists[id] ELSE <<>>)
            \o (IF id = config.id THEN tools ELSE <<>>)]

RECURSIVE get_tools_from_servers(_, _)
\* lines 194-199: the lists of the selected servers that have one, one
\* after the other
get_tools_from_servers(lists, selected_servers) ==
    IF Len(selected_servers) = 0 THEN <<>>
    ELSE (IF Head(selected_servers) \in DOMAIN lists
          THEN lists[Head(selected_servers)] ELSE <<>>)
         \o get_tools_from_servers(lists, Tail(selected_servers))

\* lines 54-64: the server of the next config is spawned and its session
\* entered; a server that does not start is reported and passed over
ProbeSpawn ==
    /\ pc = "initialize"
    /\ probe.session = 0
    /\ \E started \in BOOLEAN :
          IF started
          THEN LET o == ClientSession(
                           sessions,
                           Session(Owner("initialize", probe.config), "",
                                   server_configs[probe.config], None))
               IN  /\ sessions' = o.sessions
                   /\ probe' = [probe EXCEPT !.session = o.id]
                   /\ stages' = stages \cup {"probe"}
                   /\ UNCHANGED pc
          ELSE /\ NextConfig
               /\ stages' = stages \cup {"probe_fault"}
               /\ UNCHANGED sessions
    /\ UNCHANGED <<agent, code, tool_map, server_tools, func_count, sandbox, tree,
                   timeout, unit, pending, calls, clock, returned,
                   result_value, outcome>>

\* lines 66-68: session.initialize() returns and the probe asks for the
\* tools
ProbeHandshake ==
    /\ pc = "initialize"
    /\ probe.session # 0
    /\ sessions[probe.session].state = "handshake"
    /\ sessions' = SendRequest(sessions, probe.session, "tools/list",
                               Owner("initialize", probe.config))
    /\ stages' = stages \cup {"probe_handshake"}
    /\ UNCHANGED <<agent, code, mcp, pc, func_count, sandbox, tree, timeout, unit,
                   pending, calls, clock, returned, result_value, outcome>>

\* lines 68-78: the server lists its tools, they are registered, and the
\* session is left
ProbeTools ==
    /\ pc = "initialize"
    /\ probe.session # 0
    /\ sessions[probe.session].state = "request"
    /\ LET config == server_configs[probe.config]
           tools == ListedTools(config)
       IN  /\ tool_map' = Register(tool_map, config, tools)
           /\ server_tools' = ListUnder(server_tools, config, tools)
           /\ sessions' = CloseSession(
                             [sessions EXCEPT ![probe.session].reply =
                                                 ListToolsResult(tools)],
                             probe.session)
    /\ NextConfig
    /\ stages' = stages \cup {"probed"}
    /\ UNCHANGED <<agent, code, func_count, sandbox, tree, timeout, unit, pending,
                   calls, clock, returned, result_value, outcome>>

\* a failing probe whose server gets its tools registered all the same
ProbeFailRegistered ==
    /\ pc = "initialize"
    /\ probe.session # 0
    /\ tool_map' = Register(tool_map, server_configs[probe.config],
                            ListedTools(server_configs[probe.config]))
    /\ sessions' = CloseSession(sessions, probe.session)
    /\ NextConfig
    /\ stages' = stages \cup {"probe_fault"}
    /\ UNCHANGED <<agent, code, server_tools, func_count, sandbox, tree, timeout,
                   unit, pending, calls, clock, returned, result_value,
                   outcome>>

\* lines 79-82: the handshake or the listing fails: the session is left and
\* the failure is reported, not raised
ProbeFail ==
    /\ pc = "initialize"
    /\ probe.session # 0
    /\ sessions' = CloseSession(sessions, probe.session)
    /\ NextConfig
    /\ stages' = stages \cup {"probe_fault"}
    /\ UNCHANGED <<agent, code, tool_map, server_tools, func_count, sandbox, tree,
                   timeout, unit, pending, calls, clock, returned,
                   result_value, outcome>>

\* a caller invokes function_wrapper in one of the forms, which runs up to
\* its first wait; the callers make no more than most invocations
InvokeFrom(forms, most) ==
    /\ pc = "serve"
    /\ Len(calls) < most
    /\ \E inv \in forms :
          LET l == Launch(tool_map, calls, sessions, inv.tool_name, inv.args)
          IN  /\ calls' = l.calls
              /\ sessions' = l.sessions
    /\ stages' = stages \cup {"invoke"}
    /\ UNCHANGED <<agent, code, mcp, pc, func_count, sandbox, tree, timeout, unit,
                   pending, clock, returned, result_value, outcome>>

Invoke == InvokeFrom(Invocations, MaxCalls)

NextMCP ==
    \/ ProbeSpawn
    \/ ProbeHandshake
    \/ ProbeTools
    \/ ProbeFail
    \/ Invoke
    \/ Handshake
    \/ TaskReplyWith(ServedReplies)
    \/ TaskFail

SpecMCP == InitMCP /\ [][NextMCP]_vars

(***************************************************************************)
(* One invocation of function_wrapper on a MultiMCP whose initialize has   *)
(* registered the tools of both servers, over every form of call and every *)
(* form of reply.                                                          *)
(***************************************************************************)
InitCall ==
    /\ code = [syntax_ok |-> TRUE, body |-> <<>>]
    /\ tool_map = Register(Register(<<>>, server_configs[1],
                                    ListedTools(server_configs[1])),
                           server_configs[2], ListedTools(server_configs[2]))
    /\ server_tools = ListUnder(ListUnder(<<>>, server_configs[1],
                                         ListedTools(server_configs[1])),
                                server_configs[2],
                                ListedTools(server_configs[2]))
    /\ probe = [config |-> Len(server_configs) + 1, session |-> 0]
    /\ pc = "serve"
    /\ stages = {}
    /\ func_count = -1
    /\ sandbox = [key \in SandboxKeys |-> Unbound]
    /\ tree = Module(<<>>)
    /\ timeout = 0
    /\ unit = [ip |-> 0, locals |-> [id \in {} |-> Unbound], got |-> <<>>]
    /\ pending = NoCall
    /\ calls = <<>>
    /\ sessions = <<>>
    /\ clock = 0
    /\ returned = Unbound
    /\ result_value = Unbound
    /\ outcome = Running
    /\ NoRun

NextCall ==
    \/ InvokeFrom(CallForms, 1)
    \/ Handshake
    \/ TaskReplyWith(ReplyForms)
    \/ TaskFail

SpecCall == InitCall /\ [][NextCall]_vars

(***************************************************************************)
(* run_user_code on a program of one statement, with a MultiMCP whose one  *)
(* server has registered tools of several names, some of them names the    *)
(* sandbox holds whatever the catalog is.                                  *)
(***************************************************************************)
\* a tool with the parameter a, registered under the name
ToolNamed(name) ==
    [name |-> name, inputSchema |-> [properties |-> <<"a">>, defs |-> <<>>]]

\* the lists of tools the one server can have registered
ToolLists ==
    {<<ToolT, ToolN, ToolM>>,
     <<ToolT, ToolNamed("final_answer")>>,
     <<ToolT, ToolNamed("parallel")>>,
     <<ToolT, ToolNamed("math")>>}

InitNames ==
    /\ code \in NamePrograms
    /\ \E tools \in ToolLists :
          /\ tool_map = Register(<<>>, server_configs[1], tools)
          /\ server_tools = ListUnder(<<>>, server_configs[1], tools)
    /\ probe = [config |-> Len(server_configs) + 1, session |-> 0]
    /\ pc = "count"
    /\ stages = {}
    /\ func_count = -1
    /\ sandbox = [key \in SandboxKeys |-> Unbound]
    /\ tree = Module(<<>>)
    /\ timeout = 0
    /\ unit = [ip |-> 0, locals |-> [id \in {} |-> Unbound], got |-> <<>>]
    /\ pending = NoCall
    /\ calls = <<>>
    /\ sessions = <<>>
    /\ clock = 0
    /\ returned = Unbound
    /\ result_value = Unbound
    /\ outcome = Running
    /\ NoRun

SpecNames == InitNames /\ [][Next]_vars

(***************************************************************************)
(* run_user_code on a program that fans out more calls than the gate lets  *)
(* a program write.                                                        *)
(***************************************************************************)
\* the programs that fan out: two calls, and six
FanOutPrograms ==
    {[syntax_ok |-> TRUE, body |-> <<stmt>>] :
        stmt \in {StmtAwaitParallel, StmtAwaitParallelSix}}

\* the one reply the server gives to each of the calls
FanOutReplies == {CallToolResult(<<TextContent("7")>>, FALSE)}

InitFanOut ==
    /\ code \in FanOutPrograms
    /\ tool_map = Catalog
    /\ server_tools = [id \in {"s1"} |-> <<ToolT>>]
    /\ probe = [config |-> Len(server_configs) + 1, session |-> 0]
    /\ pc = "count"
    /\ stages = {}
    /\ func_count = -1
    /\ sandbox = [key \in SandboxKeys |-> Unbound]
    /\ tree = Module(<<>>)
    /\ timeout = 0
    /\ unit = [ip |-> 0, locals |-> [id \in {} |-> Unbound], got |-> <<>>]
    /\ pending = NoCall
    /\ calls = <<>>
    /\ sessions = <<>>
    /\ clock = 0
    /\ returned = Unbound
    /\ result_value = Unbound
    /\ outcome = Running
    /\ NoRun

NextFanOut ==
    \/ Gate
    \/ BuildEnvironment
    \/ Rewrite
    \/ Compile
    \/ Step
    \/ Gather
    \/ Handshake
    \/ TaskReplyWith(FanOutReplies)
    \/ Join
    \/ DeadlineElapses
    \/ ClassifyResult

SpecFanOut == InitFanOut /\ [][NextFanOut]_vars

(***************************************************************************)
(* AgentLoop.run: one query taken through perception, decision, the        *)
(* execution of steps and their evaluation.  Perception, Decision, the     *)
(* executor and the debugger are collaborators: what they hand back is     *)
(* drawn from small sets.                                                  *)
(***************************************************************************)
GLOBAL_PREVIOUS_FAILURE_STEPS == 3

\* plan versions a run may reach here; the loop itself has no such bound
MaxPlans == 4

\* the plan_text of a decision: a list of n plan lines
PlanText(n) == [i \in 1..n |-> "Step " \o ToString(i - 1)]

\* what Decision.run hands back
DecisionOutput(index, type, lines) ==
    [step_index |-> index,
     description |-> "do step " \o ToString(index),
     type |-> type,
     code |-> IF type = "CODE" THEN "return t(1)" ELSE "",
     conclusion |-> IF type = "CONCLUDE" THEN "done" ELSE "",
     plan_text |-> PlanText(lines)]

Decisions ==
    {DecisionOutput(0, "CODE", 1), DecisionOutput(0, "CODE", 2),
     DecisionOutput(1, "CODE", 2), DecisionOutput(0, "CONCLUDE", 1),
     DecisionOutput(0, "NOP", 1), DecisionOutput(0, "ROOT", 1)}

\* the fields of the PerceptionSnapshot dataclass
SnapshotFields ==
    {"entities", "result_requirement", "original_goal_achieved",
     "reasoning", "local_goal_achieved", "local_reasoning",
     "last_tooluse_summary", "solution_summary", "confidence"}

\* Perception.run when the model's output parses: the required fields are
\* patched in, the two verdicts are the model's
PerceptionOutput(original, local) ==
    [keys |-> SnapshotFields, original_goal_achieved |-> original,
     local_goal_achieved |-> local, solution_summary |-> "No summary."]

\* Perception.run on a ServerError: a dictionary shaped like a decision
PerceptionUnavailable ==
    [keys |-> {"step_index", "description", "type", "code", "conclusion",
               "plan_text", "raw_text"},
     original_goal_achieved |-> FALSE, local_goal_achieved |-> FALSE,
     solution_summary |-> ""]

\* Perception.run when the output does not parse: the defaults, without
\* last_tooluse_summary
PerceptionUnparsed ==
    [keys |-> SnapshotFields \ {"last_tooluse_summary"},
     original_goal_achieved |-> FALSE, local_goal_achieved |-> FALSE,
     solution_summary |-> "Not ready yet"]

PerceptionResults ==
    {PerceptionOutput(o, l) : o \in BOOLEAN, l \in BOOLEAN} \cup
    {PerceptionUnavailable, PerceptionUnparsed}

\* PerceptionSnapshot(**perception_result): a dataclass takes its own
\* fields, all of them, and no other keyword
PerceptionSnapshot(perception_result) ==
    IF perception_result.keys = SnapshotFields
    THEN [k |-> "PerceptionSnapshot",
          original_goal_achieved |-> perception_result.original_goal_achieved,
          local_goal_achieved |-> perception_result.local_goal_achieved,
          solution_summary |-> perception_result.solution_summary]
    ELSE [k |-> "TypeError"]

\* the envelopes run_user_code hands to execute_step
ExecutorResponses ==
    {SuccessEnvelope("7", 0),
     ErrorEnvelope("NameError: name 'x' is not defined", 0)}

\* str() of an envelope, a dictionary of four strings
EnvelopeStr(r) ==
    "{'status': '" \o r.status \o "', " \o
    (IF r.status = "success" THEN "'result': '" \o r.result
     ELSE "'error': \"" \o r.error) \o
    (IF r.status = "success" THEN "'" ELSE "\"") \o
    ", 'execution_time': '" \o r.execution_time \o
    "', 'total_time': '" \o r.total_time \o "'}"

\* what the operator types at the pdb prompt of execute_step
DebuggerCommands == {"continue", "quit"}

\* Step(...) of create_step
create_step(decision_output) ==
    [index |-> decision_output.step_index,
     description |-> decision_output.description,
     type |-> decision_output.type,
     code |-> IF decision_output.type = "CODE"
              THEN PyStr(decision_output.code) ELSE None,
     conclusion |-> decision_output.conclusion,
     execution_result |-> None,
     perception |-> None,
     status |-> "pending"]

\* AgentSession.add_plan_version dropping the plan it follows
add_plan_version_replacing(s, plan_texts, steps) ==
    [s EXCEPT !.plan_versions =
        IF Len(@) = 0
        THEN <<[plan_text |-> plan_texts, steps |-> steps]>>
        ELSE [@ EXCEPT ![Len(@)] =
                [plan_text |-> plan_texts, steps |-> steps]]]

\* AgentSession.add_plan_version: the session with the plan appended
add_plan_version(s, plan_texts, steps) ==
    [s EXCEPT !.plan_versions =
        Append(@, [plan_text |-> plan_texts, steps |-> steps])]

\* what add_plan_version returns, steps[0], as the version that holds it
FirstStepOf(s, steps) ==
    IF Len(steps) > 0 THEN Len(s.plan_versions) ELSE 0

\* AgentSession.mark_complete
mark_complete(s, perception, answer) ==
    [s EXCEPT !.state =
        [original_goal_achieved |-> perception.original_goal_achieved,
         final_answer |-> IF answer # "" THEN answer
                          ELSE perception.solution_summary]]

\* handle_perception_completion
handle_perception_completion(s, perception_result) ==
    [s EXCEPT !.state =
        [original_goal_achieved |-> TRUE,
         final_answer |-> perception_result.solution_summary]]

\* the Step object the loop holds
Current == session.plan_versions[step].steps[1]

\* the session after an assignment to a field of the Step the loop holds
WithStep(s, obj) == [s EXCEPT !.plan_versions[step].steps[1] = obj]

\* the failure_memory of execute_step
failure_memory(obj) ==
    [query |-> obj.description,
     result_requirement |-> "Tool failed",
     solution_summary |-> EnvelopeStr(obj.execution_result)]

\* session_memory.append(failure_memory) with no eviction
RememberedAll(memory, obj) == Append(memory, failure_memory(obj))

\* session_memory.append(failure_memory) and, past the limit, pop(0)
Remembered(memory, obj) ==
    LET appended == Append(memory, failure_memory(obj))
    IN  IF Len(appended) > GLOBAL_PREVIOUS_FAILURE_STEPS
        THEN Tail(appended)
        ELSE appended

InitAgent ==
    /\ code = [syntax_ok |-> TRUE, body |-> <<>>]
    /\ tool_map = <<>>
    /\ server_tools = <<>>
    /\ probe = [config |-> 1, session |-> 0]
    /\ pc = "agent"
    /\ stages = {}
    /\ func_count = -1
    /\ sandbox = [key \in SandboxKeys |-> Unbound]
    /\ tree = Module(<<>>)
    /\ timeout = 0
    /\ unit = [ip |-> 0, locals |-> [id \in {} |-> Unbound], got |-> <<>>]
    /\ pending = NoCall
    /\ calls = <<>>
    /\ sessions = <<>>
    /\ clock = 0
    /\ returned = Unbound
    /\ result_value = Unbound
    /\ outcome = Running
    /\ session = [plan_versions |-> <<>>,
                  state |-> [original_goal_achieved |-> FALSE,
                             final_answer |-> ""]]
    /\ session_memory = <<>>
    /\ step = 0
    /\ at = "run"

executor ==
    <<code, mcp, pc, stages, func_count, sandbox, tree, timeout, unit,
      pending, calls, sessions, clock, returned, result_value, outcome>>

\* run up to its loop: the first perception and the first plan
RunStart ==
    /\ at = "run"
    /\ \E perception_result \in PerceptionResults :
          IF PerceptionSnapshot(perception_result).k = "TypeError"
          THEN /\ at' = "raised"
               /\ UNCHANGED <<session, step>>
          ELSE IF perception_result.original_goal_achieved
          THEN /\ session' =
                    handle_perception_completion(session, perception_result)
               /\ at' = "returned"
               /\ UNCHANGED step
          ELSE \E decision_output \in Decisions :
                  LET steps == <<create_step(decision_output)>>
                      planned == add_plan_version(
                                    session, decision_output.plan_text, steps)
                  IN  /\ session' = planned
                      /\ step' = FirstStepOf(planned, steps)
                      /\ at' = "execute"
    /\ UNCHANGED <<session_memory, executor>>

\* the CODE branch of execute_step
ExecuteCode(executor_response, command, perception_result) ==
    LET ran == [Current EXCEPT !.execution_result = executor_response]
        completed == [ran EXCEPT !.status = "completed"]
        snapshot == PerceptionSnapshot(perception_result)
        perceived == [completed EXCEPT !.perception = snapshot]
    IN  IF command = "quit"
        THEN /\ session' = WithStep(session, ran)
             /\ at' = "raised"
             /\ UNCHANGED session_memory
        ELSE IF snapshot.k = "TypeError"
        THEN /\ session' = WithStep(session, completed)
             /\ at' = "raised"
             /\ UNCHANGED session_memory
        ELSE /\ session' = WithStep(session, perceived)
             /\ session_memory' =
                    IF ~snapshot.local_goal_achieved
                    THEN Remembered(session_memory, perceived)
                    ELSE session_memory
             /\ at' = "evaluate"

\* the CONCLUDE branch of execute_step
ExecuteConclude(perception_result) ==
    LET completed == [Current EXCEPT !.execution_result =
                                        PyStr(Current.conclusion),
                                     !.status = "completed"]
        snapshot == PerceptionSnapshot(perception_result)
        perceived == [completed EXCEPT !.perception = snapshot]
    IN  /\ IF snapshot.k = "TypeError"
           THEN /\ session' = WithStep(session, completed)
                /\ at' = "raised"
           ELSE /\ session' = mark_complete(WithStep(session, perceived),
                                            snapshot, Current.conclusion)
                /\ at' = "returned"
        /\ UNCHANGED session_memory

\* execute_step, and the break of the loop when it returns None
ExecuteStep ==
    /\ at = "execute"
    /\ step # 0
    /\ CASE Current.type = "CODE" ->
              \E executor_response \in ExecutorResponses,
                 command \in DebuggerCommands,
                 perception_result \in PerceptionResults :
                    ExecuteCode(executor_response, command,
                                perception_result)
         [] Current.type = "CONCLUDE" ->
              \E perception_result \in PerceptionResults :
                    ExecuteConclude(perception_result)
         [] Current.type = "NOP" ->
              /\ session' = WithStep(session,
                    [Current EXCEPT !.status = "clarification_needed"])
              /\ at' = "returned"
              /\ UNCHANGED session_memory
         [] OTHER ->
              /\ at' = "returned"
              /\ UNCHANGED <<session, session_memory>>
    /\ UNCHANGED <<step, executor>>

\* the plan that follows: Decision.run, create_step, add_plan_version
PlanNext ==
    /\ Len(session.plan_versions) < MaxPlans
    /\ \E decision_output \in Decisions :
          LET steps == <<create_step(decision_output)>>
              planned == add_plan_version(
                            session, decision_output.plan_text, steps)
          IN  /\ session' = planned
              /\ step' = FirstStepOf(planned, steps)
              /\ at' = "execute"

\* get_next_step: whether the plan has a line after the step
HasNextStep ==
    LET next_index == Current.index + 1
        total_steps ==
            Len(session.plan_versions[Len(session.plan_versions)].plan_text)
    IN  next_index < total_steps

\* evaluate_step, and the end of the loop when it returns None
EvaluateStep ==
    /\ at = "evaluate"
    /\ IF Current.perception.original_goal_achieved
       THEN /\ session' = mark_complete(session, Current.perception, "")
            /\ step' = 0
            /\ at' = "returned"
       ELSE IF Current.perception.local_goal_achieved
       THEN IF HasNextStep
            THEN PlanNext
            ELSE /\ step' = 0
                 /\ at' = "returned"
                 /\ UNCHANGED session
       ELSE PlanNext
    /\ UNCHANGED <<session_memory, executor>>

NextAgent ==
    \/ RunStart
    \/ ExecuteStep
    \/ EvaluateStep

SpecAgent == InitAgent /\ [][NextAgent]_vars

(***************************************************************************)
(* Properties of run_user_code.                                            *)
(***************************************************************************)
\* w occurs in s
Contains(s, w) ==
    \E i \in 1..(Len(s) - Len(w) + 1) : SubSeq(s, i, i + Len(w) - 1) = w

\* the marks the execution leaves where a fault of class Exception is raised
ExceptionStages ==
    {"count_fault", "build_fault", "compile_fault", "unit_fault",
     "dispatch_fault", "session_fault", "gather_fault", "deadline"}

\* C1: a fault of class Exception raised at any stage of run_user_code
\* (counting, environment construction, compilation, the run, a tool call,
\* the deadline) ends in a returned error envelope; only a fault that is
\* not of class Exception leaves run_user_code.
C1_NoFaultPropagates ==
    /\ outcome.kind = "raised" => ~outcome.fault.isException
    /\ (pc = "done" /\ stages \cap ExceptionStages # {}) =>
          /\ outcome.kind = "returned"
          /\ outcome.envelope.status = "error"

C1_Witness ==
    /\ pc = "done"
    /\ "compile_fault" \in stages
    /\ outcome.kind = "returned"

\* C2: every returned envelope has status success or error, the key result
\* exactly when it is success, the key error exactly when it is error, and
\* always execution_time and total_time.
C2_EnvelopeShape ==
    outcome.kind = "returned" =>
        LET e == outcome.envelope
        IN  /\ e.status \in {"success", "error"}
            /\ ("result" \in DOMAIN e) <=> (e.status = "success")
            /\ ("error" \in DOMAIN e) <=> (e.status = "error")
            /\ {"execution_time", "total_time"} \subseteq DOMAIN e

C2_Witness ==
    /\ outcome.kind = "returned"
    /\ "unit_fault" \in stages
    /\ outcome.envelope.status = "error"

\* C3: a program of more than 5 call expressions is answered by the gate
\* with an error, before any proxy or sandbox is built, anything is
\* rewritten or compiled, any statement runs or any session is opened; a
\* program of at most 5 call expressions is never rejected by the gate.
C3_ComplexityGate ==
    LET n == CountCalls(Module(code.body))
    IN  /\ (code.syntax_ok /\ n > 5 /\ pc # "count") =>
              /\ pc = "done"
              /\ outcome.kind = "returned"
              /\ outcome.envelope.status = "error"
              /\ Contains(outcome.envelope.error, "Too many functions")
              /\ stages = {"counted", "rejected"}
              /\ \A key \in SandboxKeys : sandbox[key] = Unbound
              /\ tree = Module(<<>>)
              /\ unit.ip = 0
              /\ sessions = <<>>
        /\ (code.syntax_ok /\ n <= 5) => "rejected" \notin stages

C3_Witness ==
    /\ "rejected" \in stages
    /\ CountCalls(Module(code.body)) = 6

C5_TimeoutCitesBudget ==
    "deadline" \in stages =>
        LET budget == IF 500 * func_count > 3 THEN 500 * func_count ELSE 3
        IN  /\ outcome.kind = "returned"
            /\ outcome.envelope.status = "error"
            /\ Contains(outcome.envelope.error, ToString(budget))

\* the program has returned the value of the tool call it made last
ReturnedToolCall ==
    /\ pc = "done"
    /\ "classified" \in stages
    /\ unit.ip <= Len(tree.body)
    /\ tree.body[unit.ip].node = "Return"
    /\ tree.body[unit.ip].value.node = "Await"

\* C6: when the reply of a tool call carries the error flag and the program
\* returns the value of that call, the envelope is an error whose message is
\* the stripped text of the reply's first content block, whatever that text
\* is.
C6_ErrorFlagReported ==
    ReturnedToolCall =>
        LET reply == sessions[Len(sessions)].reply
        IN  reply.isError =>
                /\ outcome.envelope.status = "error"
                /\ Len(reply.content) > 0 =>
                      outcome.envelope.error = Strip(reply.content[1].text)

\* C7: a produced value whose isError flag is true gives an error envelope
\* carrying the stripped text of its first content block, or str() of the
\* whole value when there is no such block; every other produced value
\* gives a success envelope carrying str() of it.
C7_Classification ==
    "classified" \in stages =>
        LET v == result_value
            e == outcome.envelope
        IN  IF v.k = "CallToolResult" /\ v.isError
            THEN /\ e.status = "error"
                 /\ e.error = IF Len(v.content) > 0
                              THEN Strip(v.content[1].text)
                              ELSE Str(v)
            ELSE /\ e.status = "success"
                 /\ e.result = Str(v)

C7_Witness ==
    /\ "classified" \in stages
    /\ result_value.k = "CallToolResult"
    /\ result_value.isError
    /\ Len(result_value.content) > 0
    /\ Strip(result_value.content[1].text) # result_value.content[1].text

\* C8: the produced value is the unit's return value when that is not None,
\* whether or not final_answer was called; otherwise the value final_answer
\* recorded; otherwise the string "None".
C8_FallbackChain ==
    "classified" \in stages =>
        /\ returned # None => result_value = returned
        /\ (returned = None /\ sandbox["result_holder"] # Unbound) =>
              result_value = sandbox["result_holder"]
        /\ (returned = None /\ sandbox["result_holder"] = Unbound) =>
              /\ result_value = PyStr("None")
              /\ outcome.envelope = SuccessEnvelope("None", clock)

C8_Witness ==
    /\ "classified" \in stages
    /\ returned # None
    /\ sandbox["result_holder"] # Unbound
    /\ result_value = returned

RECURSIVE ReturnsAValue(_)
\* some return statement of the program, at any depth, returns a value
ReturnsAValue(stmts) ==
    \E i \in 1..Len(stmts) :
        \/ stmts[i].node = "Return" /\ stmts[i].value # NoValue
        \/ stmts[i].node = "If" /\ ReturnsAValue(stmts[i].body)

\* the rewriting has appended a statement to the program
ReturnAppended == Len(tree.body) = Len(code.body) + 1

\* a top-level statement assigns to the plain name result
TopLevelResult(stmts) ==
    \E i \in 1..Len(stmts) :
        /\ stmts[i].node = "Assign"
        /\ Name("result") \in Range(stmts[i].targets)

\* a top-level statement is a return, with or without a value
TopLevelReturn(stmts) == \E i \in 1..Len(stmts) : stmts[i].node = "Return"

\* C9 as claimed: return result is appended exactly when the program assigns
\* to result anywhere, nested blocks included, and returns no value
\* anywhere; the envelope of such a program then carries str(result).
C9_ImplicitReturnAnywhere ==
    "rewritten" \in stages =>
        LET claimed == AssignsResult(code.body) /\ ~ReturnsAValue(code.body)
        IN  /\ ReturnAppended <=> claimed
            /\ (claimed /\ "classified" \in stages) =>
                  /\ unit.locals["result"] # Unbound
                  /\ outcome.envelope.status = "success" =>
                        outcome.envelope.result = Str(unit.locals["result"])

\* C9 amended: return result is appended exactly when a top-level statement
\* assigns to the plain name result and no top-level statement is a return;
\* a program that reaches the appended return with result neither None nor
\* error-flagged gets a success envelope carrying str(result).
C9_ImplicitReturnTopLevel ==
    "rewritten" \in stages =>
        /\ ReturnAppended <=>
              (TopLevelResult(code.body) /\ ~TopLevelReturn(code.body))
        /\ ReturnAppended =>
              tree.body[Len(tree.body)] = Return(Name("result"))
        /\ (ReturnAppended /\ "classified" \in stages
                           /\ unit.ip = Len(tree.body)) =>
              /\ returned = unit.locals["result"]
              /\ (returned # None /\ ~HasErrorFlag(returned)) =>
                    outcome.envelope = SuccessEnvelope(Str(returned), clock)

C9_Witness ==
    /\ ReturnAppended
    /\ "classified" \in stages
    /\ unit.ip = Len(tree.body)
    /\ AssignsResult(<<code.body[1]>>)
    /\ ~TopLevelResult(<<code.body[1]>>)
    /\ outcome.envelope.status = "success"

\* C10: the program result = 2 + 2, where the sandbox can be built, yields
\* success with result "4", under the deadline of 3 seconds, which does not
\* elapse, and opens no session.
C10_ResultSum ==
    code = [syntax_ok |-> TRUE, body |-> <<StmtResultSum>>] =>
        /\ sessions = <<>>
        /\ "deadline" \notin stages
        /\ "started" \in stages => timeout = 3
        /\ (pc = "done" /\ "build_fault" \notin stages) =>
              /\ outcome.kind = "returned"
              /\ outcome.envelope.status = "success"
              /\ outcome.envelope.result = "4"

C10_Witness ==
    /\ code = [syntax_ok |-> TRUE, body |-> <<StmtResultSum>>]
    /\ pc = "done"
    /\ "classified" \in stages

RECURSIVE ToolCallsIn(_, _)
\* the call expressions under node n whose target is a bare name of names
ToolCallsIn(n, names) ==
    LET Each(ns) == SumSeq([i \in 1..Len(ns) |-> ToolCallsIn(ns[i], names)])
    IN  CASE n.node = "Call" ->
                (IF n.func.node = "Name" /\ n.func.id \in names THEN 1 ELSE 0)
                + ToolCallsIn(n.func, names) + Each(n.args)
                + Each([i \in 1..Len(n.keywords) |-> n.keywords[i].value])
          [] n.node = "BinOp" ->
                ToolCallsIn(n.left, names) + ToolCallsIn(n.right, names)
          [] n.node = "Await" -> ToolCallsIn(n.value, names)
          [] n.node \in {"Assign", "Return", "Expr"} ->
                ToolCallsIn(n.value, names)
          [] n.node = "If" -> ToolCallsIn(n.test, names) + Each(n.body)
          [] n.node = "Tuple" -> Each(n.elts)
          [] OTHER -> 0

\* a tool call that was made but never run
NotYetRun(v) == v.k = "coroutine" /\ v.name = "_tool_fn"

\* the statements of the program that have run to their end
StatementsDone ==
    IF pc = "run" THEN unit.ip - 1
    ELSE IF pc = "classify" \/ "classified" \in stages
    THEN IF unit.ip <= Len(code.body) THEN unit.ip ELSE Len(code.body)
    ELSE 0

\* the program uses the fan-out
UsesParallel ==
    \E i \in 1..Len(code.body) : ToolCallsIn(code.body[i], {"parallel"}) > 0

\* C11: every call of a registered tool name, nested as an argument of
\* another call or not, suspends its statement: a statement has run to its
\* end only when the dispatcher has returned for each tool call in it (one
\* closed session with its reply per call), the call expression has the
\* normalized reply as its value, and no value of the program is ever a tool
\* call that was not run.
C11_ImplicitSuspension ==
    /\ \A id \in DOMAIN unit.locals : ~NotYetRun(unit.locals[id])
    /\ ~NotYetRun(returned)
    /\ ~NotYetRun(sandbox["result_holder"])
    /\ (~UsesParallel /\ (pc \in {"run", "classify"}
                           \/ "classified" \in stages)) =>
          /\ \A i \in 1..Len(sessions) :
                sessions[i].state = "closed" /\ sessions[i].reply # None
          /\ Len(sessions) =
                SumSeq([i \in 1..StatementsDone |->
                          ToolCallsIn(code.body[i], DOMAIN tool_map)])
                + (IF pc = "run" THEN Len(unit.got) ELSE 0)
    /\ (pc = "run" /\ unit.ip = 2 /\ code.body[1] = StmtResultTool) =>
          unit.locals["result"] = NormalizeReply(sessions[1].reply)
    /\ (pc = "run" /\ unit.ip = 2 /\ code.body[1] = StmtFinalTool) =>
          sandbox["result_holder"] = NormalizeReply(sessions[1].reply)

C11_Witness ==
    /\ pc = "run"
    /\ unit.ip = 2
    /\ code.body[1] = StmtFinalTool
    /\ Len(sessions) = 1
    /\ sandbox["result_holder"] = PyInt(4)

\* C12: when the statement result = parallel(("t", 1), ("t", 2)), written as
\* a plain call, has run to its end, both listed tool calls were launched
\* and result is the list of their two results, in the order listed.
C12_PlainParallelLaunches ==
    (code.body # <<>> /\ code.body[1] = StmtParallel
       /\ pc = "run" /\ unit.ip = 2) =>
        /\ Len(calls) = 2
        /\ unit.locals["result"] =
              PyList(<<calls[1].result, calls[2].result>>)

\* the reply the server gave to the request t(a = arg)
ReplyTo(arg) ==
    LET j == CHOOSE j \in 1..Len(sessions) :
                 sessions[j].params =
                     PyDict(<<[key |-> "a", val |-> PyInt(arg)]>>)
    IN  sessions[j].reply

\* the program begins with result = await parallel(("t", 1), ("t", 2)) and
\* that statement has run to its end
ParallelReturned ==
    /\ code.body # <<>>
    /\ code.body[1] = StmtAwaitParallel
    /\ pc = "run"
    /\ unit.ip = 2
    /\ unit.got = <<>>

\* C13: when both calls of an awaited parallel(("t", 1), ("t", 2)) succeed,
\* parallel has returned only after both calls have ended with their
\* sessions closed, and the list it returned holds the normalized reply to
\* t(1) first and the one to t(2) second, whichever call completed first.
C13_GatherAllInOrder ==
    ParallelReturned =>
        /\ Len(calls) = 2
        /\ \A k \in 1..2 :
              /\ calls[k].st = "returned"
              /\ sessions[calls[k].session].state = "closed"
        /\ Live(sessions) = {}
        /\ unit.locals["result"] =
              PyList(<<NormalizeReply(ReplyTo(1)), NormalizeReply(ReplyTo(2))>>)

C13_Witness ==
    /\ ParallelReturned
    /\ calls[2].seq < calls[1].seq
    /\ ReplyTo(1) # ReplyTo(2)

\* the call that was the first to end with a fault
FirstFault ==
    LET raised == {k \in 1..Len(calls) : calls[k].st = "raised"}
    IN  CHOOSE k \in raised : \A j \in raised : calls[k].seq <= calls[j].seq

\* C14: when a call launched by parallel has faulted, the caller gets the
\* fault of the call that faulted first, and no sibling is cancelled: a
\* sibling's session stays open after the envelope was returned and is
\* closed only when the sibling's own reply was read or its own request
\* failed.
C14_FirstFaultSiblingsRun ==
    "gather_fault" \in stages =>
        /\ outcome = Returned(ErrorEnvelope(
                        calls[FirstFault].fault.type \o ": " \o
                        calls[FirstFault].fault.msg, clock))
        /\ \A k \in 1..Len(calls) :
              /\ calls[k].st # "cancelled"
              /\ calls[k].session # 0 =>
                    LET ses == sessions[calls[k].session]
                    IN  /\ (ses.state = "closed") <=>
                              (calls[k].st \in {"returned", "raised"})
                        /\ calls[k].st = "returned" =>
                              /\ ses.reply # None
                              /\ calls[k].result = NormalizeReply(ses.reply)

C14_Witness ==
    /\ "gather_fault" \in stages
    /\ "orphan_reply" \in stages
    /\ calls[1].fault.type = "McpError"
    /\ calls[2].st = "returned"
    /\ Live(sessions) = {}

RECURSIVE ToolCallArgs(_, _)
\* the argument values of the calls under node n whose target is a bare
\* name of names, in the order the calls are made: a call's arguments are
\* evaluated before the call
ToolCallArgs(n, names) ==
    LET Each(ns) ==
            LET RECURSIVE Cat(_)
                Cat(i) == IF i > Len(ns) THEN <<>>
                          ELSE ToolCallArgs(ns[i], names) \o Cat(i + 1)
            IN  Cat(1)
        Values(es) == [i \in 1..Len(es) |-> es[i].value]
    IN  CASE n.node = "Call" ->
                LET all == n.args \o
                           [i \in 1..Len(n.keywords) |-> n.keywords[i].value]
                IN  Each(all) \o
                    (IF n.func.node = "Name" /\ n.func.id \in names
                     THEN <<Values(all)>> ELSE <<>>)
          [] n.node = "BinOp" ->
                ToolCallArgs(n.left, names) \o ToolCallArgs(n.right, names)
          [] n.node \in {"Await", "Assign", "Return", "Expr"} ->
                ToolCallArgs(n.value, names)
          [] n.node = "If" -> ToolCallArgs(n.test, names) \o Each(n.body)
          [] n.node \in {"Module"} -> Each(n.body)
          [] OTHER -> <<>>

\* C16: in an execution that does not use parallel, the tool calls are
\* dispatched in the order the program text makes them, each session is
\* opened only when every earlier session is closed, and so at most one
\* session is open at any time.
C16_SequentialCalls ==
    ~UsesParallel =>
        LET text == ToolCallArgs(Module(code.body), DOMAIN tool_map)
        IN  /\ Len(calls) <= Len(text)
            /\ \A k \in 1..Len(calls) : calls[k].args = text[k]
            /\ \A k, j \in 1..Len(calls) :
                  (k < j /\ calls[k].session # 0 /\ calls[j].session # 0) =>
                      calls[k].session < calls[j].session
            /\ \A i \in 1..Len(sessions) :
                  i < Len(sessions) => sessions[i].state = "closed"
            /\ Cardinality(Live(sessions)) <= 1

C16_Witness ==
    /\ ~UsesParallel
    /\ Len(sessions) = 2
    /\ sessions[1].params = PyDict(<<[key |-> "a", val |-> PyInt(2)]>>)
    /\ sessions[2].params = PyDict(<<[key |-> "a", val |-> PyInt(3)]>>)
    /\ sessions[1].state = "closed"
    /\ sessions[2].state = "handshake"

\* the request a session of owner o may carry
MethodOf(o) == IF o.op = "initialize" THEN "tools/list" ELSE "tools/call"

\* the invocation that owns session i is still inside its async with blocks
OwnerInside(i) ==
    LET o == sessions[i].owner
    IN  IF o.op = "initialize"
        THEN pc = "initialize" /\ probe.config = o.n /\ probe.session = i
        ELSE /\ o.n \in 1..Len(calls)
             /\ calls[o.n].session = i
             /\ calls[o.n].st \in {"connecting", "requested"}

\* C17: every session opened by a probe of initialize or by a tool call is
\* a new one owned by that invocation alone, carries no request before its
\* handshake is done and one request of its owner after it, is used by no
\* other invocation, and is closed exactly when its owner has left, be it
\* after the reply, after a failed handshake or after a failed request.
C17_SessionPerInvocation ==
    /\ \A i, j \in 1..Len(sessions) :
          sessions[i].owner = sessions[j].owner => i = j
    /\ \A k \in 1..Len(calls) :
          calls[k].session # 0 =>
              /\ calls[k].session \in 1..Len(sessions)
              /\ sessions[calls[k].session].owner = Owner("call_tool", k)
    /\ probe.session # 0 =>
          /\ probe.session \in 1..Len(sessions)
          /\ sessions[probe.session].owner =
                Owner("initialize", probe.config)
    /\ \A i \in 1..Len(sessions) :
          LET ses == sessions[i]
          IN  /\ Len(ses.requests) <= 1
              /\ ses.state = "handshake" => Len(ses.requests) = 0
              /\ ses.state = "request" => Len(ses.requests) = 1
              /\ ses.reply # None => Len(ses.requests) = 1
              /\ \A r \in 1..Len(ses.requests) :
                    /\ ses.requests[r].by = ses.owner
                    /\ ses.requests[r].method = MethodOf(ses.owner)
              /\ ses.state = "closed" <=> ~OwnerInside(i)

C17_Witness ==
    /\ Len(sessions) = 4
    /\ Len(calls) = 2
    /\ \A i \in 1..4 : sessions[i].state = "closed"
    /\ sessions[1].owner = Owner("initialize", 1)
    /\ sessions[1].reply = ListToolsResult(<<ToolT, ToolI>>)
    /\ sessions[2].owner = Owner("initialize", 2)
    /\ Len(sessions[2].requests) = 0
    /\ calls[1].st = "returned"
    /\ sessions[calls[1].session].reply \in Replies
    /\ calls[2].st = "raised"
    /\ calls[2].session # 0
    /\ Len(sessions[calls[2].session].requests) = 1

\* the number of parameters the schema of a tool declares: those of the
\* companion definitions under an input wrapper, else those under the
\* top-level properties
Declared(tool) ==
    IF /\ \E i \in 1..Len(tool.inputSchema.properties) :
             tool.inputSchema.properties[i] = "input"
       /\ Len(tool.inputSchema.defs) > 0
    THEN Len(tool.inputSchema.defs[1].properties)
    ELSE Len(tool.inputSchema.properties)

\* no session was opened for invocation k
NoSessionFor(k) ==
    /\ calls[k].session = 0
    /\ \A i \in 1..Len(sessions) : sessions[i].owner # Owner("call_tool", k)

\* invocation k passes a registered name with a number of arguments that
\* differs from the declared one
CountMismatch(k) ==
    /\ Len(calls[k].args) > 0
    /\ calls[k].tool_name \in DOMAIN tool_map
    /\ Len(calls[k].args) # Declared(tool_map[calls[k].tool_name].tool)

AskedName(k) ==
    LET text == calls[k].tool_name
        open == {i \in 1..Len(text) : SubSeq(text, i, i) = "("}
    IN  IF Len(calls[k].args) = 0 /\ open # {}
        THEN SubSeq(text, 1, (CHOOSE i \in open : \A j \in open : i <= j) - 1)
        ELSE text

\* C19: an invocation of function_wrapper, by position or by call text, of
\* a name the catalog does not hold raises a ValueError that says the tool
\* was not found and names it, and no session is opened for it.
C19_UnknownToolRejected ==
    \A k \in 1..Len(calls) :
        AskedName(k) \notin DOMAIN tool_map =>
            /\ calls[k].st = "raised"
            /\ calls[k].fault.type = "ValueError"
            /\ Contains(calls[k].fault.msg, "not found")
            /\ Contains(calls[k].fault.msg, "'" \o AskedName(k) \o "'")
            /\ NoSessionFor(k)

C19_Witness ==
    /\ Len(calls) = 2
    /\ "t" \in DOMAIN tool_map
    /\ calls[1].tool_name = "u(1)" /\ calls[1].args = <<>>
    /\ calls[2].tool_name = "u" /\ calls[2].args = <<PyInt(1)>>
    /\ \A k \in 1..2 : calls[k].fault.msg = "Tool 'u' not found."

\* the unit has ended in its i-th statement, the call f() of a name that is
\* neither a tool of the catalog nor any other name of the sandbox
CalledUnregistered(i) ==
    /\ code.body[i] = StmtUndefined
    /\ "f" \notin DOMAIN tool_map
    /\ unit.ip = i
    /\ pc = "done"

\* C20: a program that calls a name not registered in the catalog ends with
\* status "error" and a message that contains the name, and neither an
\* invocation of the dispatcher nor a session is made for that call.
C20_UnregisteredNameInProgram ==
    \A i \in 1..Len(code.body) :
        CalledUnregistered(i) =>
            /\ outcome.kind = "returned"
            /\ outcome.envelope.status = "error"
            /\ Contains(outcome.envelope.error, "'f'")
            /\ \A k \in 1..Len(calls) : calls[k].tool_name # "f"
            /\ \A j \in 1..Len(sessions) : sessions[j].tool_name # "f"

C20_Witness ==
    /\ Len(code.body) = 2
    /\ code.body[1] = StmtResultTool
    /\ CalledUnregistered(2)
    /\ Len(sessions) = 1
    /\ outcome.envelope.error = "NameError: name 'f' is not defined"

\* the call texts whose head is not a bare name, or that hold an argument
\* that is not a literal, or that are not well formed
RefusedTexts ==
    {"t(1, a=u(2))", "t(a=1, 2)", "a.b(1)", "t(1)(2)", "t(u(1))", "t(x)",
     "t(1, x.y)", "t(1))", "t(,)", "t(1 2)"}

Raw == [k |-> "raw"]

\* a mapping of integers, written out
Mapping(keys, vals) ==
    PyDict([i \in 1..Len(keys) |-> [key |-> keys[i], val |-> PyInt(vals[i])]])

\* what the text of a first content block is to be normalized to
Normal(text) ==
    CASE text = "7" -> PyInt(7)
      [] text = "null" -> None
      [] text = "true" -> PyBool(TRUE)
      [] text = "\"s\"" -> PyStr("s")
      [] text = "{}" -> PyDict(<<>>)
      [] text = "{\"result\": 4}" -> PyInt(4)
      [] text = " {\"result\": 4} " -> PyInt(4)
      [] text = "{\"result\": null}" -> None
      [] text = "{\"a\": 5}" -> PyInt(5)
      [] text = "{\"a\": 1, \"b\": 2}" -> Mapping(<<"a", "b">>, <<1, 2>>)
      [] text = "{\"result\": 4, \"a\": 1}" -> PyInt(4)
      [] text = "{\"a\": 1, \"result\": 4}" -> PyInt(4)
      [] text = "{\"a\": {\"result\": 1}}" -> Mapping(<<"result">>, <<1>>)
      [] text = "{\"result\": {\"a\": 1, \"b\": 2}}" ->
            Mapping(<<"a", "b">>, <<1, 2>>)
      [] OTHER -> Raw

\* C23: function_wrapper returns the text of the first content block of the
\* reply, parsed: of a mapping with the key result the value of that key,
\* else of a mapping with one entry the value of that entry, else the
\* parsed value; and the reply itself, unchanged, when it has no content
\* block or when the text does not parse.
C23_ReplyNormalization ==
    \A k \in 1..Len(calls) :
        calls[k].st = "returned" =>
            LET reply == sessions[calls[k].session].reply
            IN  /\ reply \in ReplyForms
                /\ calls[k].result =
                      IF Len(reply.content) = 0 THEN reply
                      ELSE IF Normal(reply.content[1].text) = Raw THEN reply
                      ELSE Normal(reply.content[1].text)

C23_Witness ==
    /\ Len(calls) = 1
    /\ calls[1].st = "returned"
    /\ sessions[1].reply.content = <<TextContent("{\"a\": 1, \"result\": 4}")>>
    /\ calls[1].result = PyInt(4)

\* the i-th argument under the i-th name
Bound(names, args) ==
    PyDict([i \in 1..Len(names) |-> [key |-> names[i], val |-> args[i]]])

\* invocation k passes, by position, as many arguments as tool declares,
\* and has a session
BoundCall(k, tool) ==
    /\ calls[k].tool_name = tool.name
    /\ tool_map[tool.name].tool = tool
    /\ Len(calls[k].args) = Declared(tool)
    /\ calls[k].session # 0

\* C24: for the tool n, whose parameters a and b are wrapped under input,
\* the i-th argument is bound to the i-th declared name, the very mapping
\* the flat tool m with the same parameters in the same order gets, and the
\* mapping is sent under the key input.
C24_NestedBindsLikeFlat ==
    \A k \in 1..Len(calls) :
        /\ BoundCall(k, ToolM) =>
              sessions[calls[k].session].params =
                 Bound(<<"a", "b">>, calls[k].args)
        /\ BoundCall(k, ToolN) =>
              sessions[calls[k].session].params =
                 PyDict(<<[key |-> "input",
                           val |-> Bound(<<"a", "b">>, calls[k].args)]>>)

C24_Witness ==
    /\ Len(calls) = 1
    /\ BoundCall(1, ToolN)
    /\ calls[1].args = <<PyInt(2), PyInt(1)>>
    /\ sessions[1].state = "request"
    /\ sessions[1].params =
          PyDict(<<[key |-> "input",
                    val |-> PyDict(<<[key |-> "a", val |-> PyInt(2)],
                                     [key |-> "b", val |-> PyInt(1)]>>)]>>)

\* the schema of tool declares its parameters under the top-level properties
\* key, with no companion definitions
DeclaredFlat(tool) == Len(tool.inputSchema.defs) = 0

\* C25: an invocation, with the declared number of arguments, of a tool
\* whose schema declares its parameters directly under properties is bound
\* flat, each declared name to the argument at its position, and does not
\* fault in the binding; only a schema with an input wrapper and companion
\* definitions is bound as nested.
C25_FlatSchemaBoundFlat ==
    \A k \in 1..Len(calls) :
        LET name == calls[k].tool_name
        IN  (/\ Len(calls[k].args) > 0
             /\ name \in DOMAIN tool_map
             /\ DeclaredFlat(tool_map[name].tool)
             /\ Len(calls[k].args) =
                   Len(tool_map[name].tool.inputSchema.properties)) =>
                /\ calls[k].session # 0
                /\ sessions[calls[k].session].params =
                      Bound(tool_map[name].tool.inputSchema.properties,
                            calls[k].args)

\* the call texts paired with the name and the arguments they spell out
SpelledOut ==
    {<<"t(1)", "t", <<PyInt(1)>>>>,
     <<"n(1, 2)", "n", <<PyInt(1), PyInt(2)>>>>,
     <<"u(1)", "u", <<PyInt(1)>>>>}

\* invocation k passes as one string the call invocation j makes by
\* position
SameCall(k, j) ==
    /\ Len(calls[k].args) = 0
    /\ <<calls[k].tool_name, calls[j].tool_name, calls[j].args>> \in SpelledOut

\* the invocation was refused before any session
Refused(k) == calls[k].st = "raised" /\ calls[k].session = 0

\* C21: an invocation by call text and the invocation by position of the
\* same name with the same arguments are both refused with the same error,
\* or both open a session against the same server for the same tool with
\* the same payload, and given the same reply return the same value.
C21_StringFormEquivalent ==
    \A k, j \in 1..Len(calls) :
        SameCall(k, j) =>
            /\ Refused(k) <=> Refused(j)
            /\ Refused(k) => calls[k].fault = calls[j].fault
            /\ ~Refused(k) =>
                  LET a == sessions[calls[k].session]
                      b == sessions[calls[j].session]
                  IN  /\ a.server = b.server
                      /\ a.tool_name = b.tool_name
                      /\ a.params = b.params
                      /\ (/\ calls[k].st = "returned"
                          /\ calls[j].st = "returned"
                          /\ a.reply = b.reply) =>
                             calls[k].result = calls[j].result

C21_Witness ==
    /\ Len(calls) = 2
    /\ calls[1].tool_name = "n(1, 2)"
    /\ SameCall(1, 2)
    /\ calls[1].st = "returned"
    /\ calls[2].st = "returned"
    /\ sessions[calls[1].session].reply = sessions[calls[2].session].reply
    /\ calls[1].result = PyInt(4)

\* the probe of the i-th config went through: its session was given the
\* list of the tools
Probed(i) ==
    \E s \in 1..Len(sessions) :
        /\ sessions[s].owner = Owner("initialize", i)
        /\ sessions[s].reply # None

\* the configs whose probe went through
ProbedConfigs == {i \in 1..Len(server_configs) : Probed(i)}

\* the names of the listed tools
NamesOf(tools) == {tools[j].name : j \in 1..Len(tools)}

\* C27: when initialize is over, whichever servers failed to start, in the
\* handshake or in the listing, nothing was raised; server_tools holds
\* the list of every server that did not fail and of no other, and
\* tool_map holds the names of their tools and no other name, each with
\* the config of a server that did not fail and a tool that server lists.
C27_FailingServersSkipped ==
    pc = "serve" =>
        /\ outcome = Running
        /\ NoRun
        /\ DOMAIN server_tools =
               {server_configs[i].id : i \in ProbedConfigs}
        /\ \A i \in ProbedConfigs :
               server_tools[server_configs[i].id] =
                   ListedTools(server_configs[i])
        /\ DOMAIN tool_map =
               UNION {NamesOf(ListedTools(server_configs[i])) :
                        i \in ProbedConfigs}
        /\ \A n \in DOMAIN tool_map :
               \E i \in ProbedConfigs :
                   /\ tool_map[n].config = server_configs[i]
                   /\ tool_map[n].tool \in Range(ListedTools(server_configs[i]))

\* the first server did not answer its handshake or its listing, the second
\* one was probed, and a tool of the second one is invoked
C27_Witness ==
    /\ pc = "serve"
    /\ ProbedConfigs = {2}
    /\ \E s \in 1..Len(sessions) :
           sessions[s].owner = Owner("initialize", 1)
    /\ DOMAIN tool_map = {"n", "m", "t"}
    /\ \E k \in 1..Len(calls) : calls[k].st = "returned"

\* the probed configs that list a tool of the name
Listers(n) ==
    {i \in ProbedConfigs : n \in NamesOf(ListedTools(server_configs[i]))}

\* the tool of the name in the list of the last probed config that has one
LastListed(n) ==
    LET i == CHOOSE i \in Listers(n) : \A j \in Listers(n) : j <= i
        tools == ListedTools(server_configs[i])
    IN  [config |-> server_configs[i],
         tool |-> tools[CHOOSE j \in 1..Len(tools) : tools[j].name = n]]

\* C28: when initialize is over, a name that several probed servers list
\* holds the config and the tool of the last of them in server_configs,
\* and every session opened for that name is opened against that server,
\* the arguments passed by position bound to the parameters of that tool.
C28_LastServerWins ==
    pc = "serve" =>
        \A n \in DOMAIN tool_map :
            Cardinality(Listers(n)) > 1 =>
                /\ tool_map[n] = LastListed(n)
                /\ \A k \in 1..Len(calls) :
                       (calls[k].session # 0
                        /\ sessions[calls[k].session].tool_name = n) =>
                           LET s == sessions[calls[k].session]
                               schema == LastListed(n).tool.inputSchema
                           IN  /\ s.server = LastListed(n).config.id
                               /\ (calls[k].tool_name = n
                                   /\ Len(schema.defs) = 0) =>
                                      s.params = Bound(schema.properties,
                                                       calls[k].args)

\* both servers were probed, both list a tool t, and t is invoked
C28_Witness ==
    /\ pc = "serve"
    /\ ProbedConfigs = {1, 2}
    /\ Listers("t") = {1, 2}
    /\ tool_map["t"].tool = ToolX
    /\ \E k \in 1..Len(calls) :
           /\ calls[k].tool_name = "t"
           /\ calls[k].session # 0
           /\ sessions[calls[k].session].server = "s2"
           /\ calls[k].st = "returned"
\* C29: no step of an execution, from the counting of the calls to the
\* envelope, whether it ends well, with a fault or at the deadline, with
\* calls made one by one or fanned out, changes tool_map or server_tools.
C29_CatalogUnchanged ==
    [][tool_map' = tool_map /\ server_tools' = server_tools]_vars

\* an execution that fanned calls out and ran into the deadline is over,
\* its calls cancelled, and the catalog is the one it started with
C29_Witness ==
    /\ pc = "done"
    /\ {"gathered", "deadline"} \subseteq stages
    /\ \E k \in 1..Len(calls) : calls[k].st = "cancelled"
    /\ tool_map = Catalog
    /\ server_tools = [id \in {"s1"} |-> <<ToolT>>]
\* the statements whose one call is a tool call with keyword arguments
KeywordStmts == {StmtKeywordTool, StmtKeywordsOnly, StmtKeywordAfter}

\* the values a call is written with: the positional ones, then the
\* keyword ones, as the text has them
WrittenValues(call) ==
    [i \in 1..Len(call.args) |-> call.args[i].value]
    \o [i \in 1..Len(call.keywords) |-> call.keywords[i].value.value]

\* the payload that gives the i-th value to the i-th parameter the tool
\* declares
PayloadInOrder(tool, values) ==
    IF Len(tool.inputSchema.defs) > 0
    THEN PyDict(<<[key |-> "input",
                   val |-> Bound(tool.inputSchema.defs[1].properties,
                                 values)]>>)
    ELSE Bound(tool.inputSchema.properties, values)

\* C26: a tool call written with keyword arguments reaches function_wrapper
\* with the positional values followed by the keyword values in the order
\* they are written, and the payload of its session gives the i-th of them
\* to the i-th declared parameter, whatever the keywords are.
C26_KeywordsBoundByPosition ==
    \A stmt \in KeywordStmts :
        code.body = <<stmt>> =>
            \A k \in 1..Len(calls) :
                /\ calls[k].tool_name = stmt.value.func.id
                /\ calls[k].args = WrittenValues(stmt.value)
                /\ calls[k].session # 0
                /\ sessions[calls[k].session].params =
                      PayloadInOrder(tool_map[stmt.value.func.id].tool,
                                     WrittenValues(stmt.value))

\* return m(b=2, a=1) has sent 2 as a and 1 as b
C26_Witness ==
    /\ code.body = <<StmtKeywordsOnly>>
    /\ Len(calls) = 1
    /\ calls[1].args = <<PyInt(2), PyInt(1)>>
    /\ sessions[calls[1].session].params =
          PyDict(<<[key |-> "a", val |-> PyInt(2)],
                   [key |-> "b", val |-> PyInt(1)]>>)
    /\ calls[1].st = "returned"

\* C30: once the sandbox is built, every name of the catalog is bound in it
\* to the proxy that calls function_wrapper with that name.
C30_EveryToolHasItsProxy ==
    "sandbox" \in stages =>
        \A n \in DOMAIN tool_map :
            sandbox[n] = [k |-> "function", name |-> "_tool_fn",
                          tool_name |-> n]
\* the text does not parse, or what the rewriting makes of it does not
\* compile: it is empty, or it calls a tool from inside a lambda
Uncompilable ==
    \/ ~code.syntax_ok
    \/ code.body = <<>>
    \/ code.body = <<StmtLambdaTool>>

\* what the parser or the compiler says of such a text
CompilerMessage ==
    IF ~code.syntax_ok THEN "invalid syntax (<unknown>, line 1)"
    ELSE IF code.body = <<>> THEN "empty body on AsyncFunctionDef"
    ELSE "'await' outside async function (<user_code>, line 1)"

\* C31: of a text that does not parse or compile no statement is run and
\* no session is opened for it, and when the parser or the compiler has
\* refused it the envelope is an error carrying the parser's or the
\* compiler's message.
C31_CompileFailureRunsNothing ==
    /\ Uncompilable =>
          /\ "started" \notin stages
          /\ "statement" \notin stages
          /\ Len(calls) = 0
          /\ Len(sessions) = 0
          /\ pc = "done" => /\ outcome.kind = "returned"
                            /\ outcome.envelope.status = "error"
    /\ ("count_fault" \in stages \/ "compile_fault" \in stages) =>
          /\ Uncompilable
          /\ pc = "done"
          /\ outcome.kind = "returned"
          /\ outcome.envelope.status = "error"
          /\ outcome.envelope.error = CompilerMessage

\* f = lambda: t(1) was rewritten to await inside the lambda and refused by
\* the compiler
C31_Witness ==
    /\ code.body = <<StmtLambdaTool>>
    /\ "compile_fault" \in stages
    /\ tree.body[1].value.body.node = "Await"
    /\ outcome.envelope.error =
          "'await' outside async function (<user_code>, line 1)"
\* the category names of the faults an execution can meet
Categories ==
    {"SyntaxError", "ValueError", "ModuleNotFoundError", "NameError",
     "TypeError", "UnboundLocalError", "KeyError", "TimeoutError", "McpError"}

\* the text starts with the name of a category and a colon
NamesCategory(text) ==
    \E c \in Categories : StartsWith(text, 1, c \o ": ")

\* C32: the envelope of an execution that met a fault of class Exception,
\* at whatever stage, is an error whose text is the category name of the
\* fault, a colon and the message of the fault.
C32_EnvelopeNamesCategory ==
    (pc = "done" /\ stages \cap ExceptionStages # {}) =>
        /\ outcome.kind = "returned"
        /\ outcome.envelope.status = "error"
        /\ NamesCategory(outcome.envelope.error)
        /\ "count_fault" \in stages =>
              outcome.envelope.error =
                  "SyntaxError: invalid syntax (<unknown>, line 1)"
        /\ "build_fault" \in stages =>
              outcome.envelope.error =
                  "ModuleNotFoundError: No module named '_sqlite3'"
        /\ "compile_fault" \in stages =>
              outcome.envelope.error =
                  "ValueError: empty body on AsyncFunctionDef"
\* the marks an execution leaves where a tool call raises into the unit: a
\* dispatch error, a failure of the session, a fault of a fanned-out call
CallFaultStages == {"dispatch_fault", "session_fault", "gather_fault"}

\* the fault of the call that was the first to raise
FirstCallFault ==
    LET raised == {k \in 1..Len(calls) : calls[k].st = "raised"}
        first == CHOOSE k \in raised :
                     \A j \in raised : calls[k].seq <= calls[j].seq
    IN  calls[first].fault

\* the execution has ended with the fault of a tool call, at the statement
\* that made the call
StoppedAtCall ==
    (stages \cap CallFaultStages # {}) =>
        /\ pc = "done"
        /\ unit.ip <= Len(tree.body)
        /\ outcome.kind = "returned"
        /\ outcome.envelope.status = "error"
        /\ outcome.envelope.error =
              FirstCallFault.type \o ": " \o FirstCallFault.msg

\* once a tool call has raised into the unit no statement is run, no
\* function_wrapper entered and no session opened
NothingLater ==
    (stages \cap CallFaultStages # {}) =>
        /\ unit' = unit
        /\ sandbox' = sandbox
        /\ Len(calls') = Len(calls)
        /\ Len(sessions') = Len(sessions)

\* C33: a dispatch error or a session failure that a tool call raises into
\* the unit ends the execution at the statement of the call, with an error
\* envelope made of the category name of the fault, a colon and its
\* message; afterwards no statement runs and no session is opened.
C33_DispatchErrorStops == []StoppedAtCall /\ [][NothingLater]_vars

\* t() was refused for its argument count in a program of two statements
C33_Witness ==
    /\ Len(code.body) = 2
    /\ code.body[1] = StmtBadArgs
    /\ "dispatch_fault" \in stages
    /\ unit.ip = 1
    /\ Len(sessions) = 0
    /\ outcome.envelope.error = "ValueError: t expects 1 args, got 0"
\* the program is two or more statements that each call the sink, with a
\* constant or with the value of a tool call, and returns nothing
OnlySinkCalls ==
    /\ Len(code.body) >= 2
    /\ \A i \in 1..Len(code.body) :
           code.body[i] \in {StmtFinalAnswer, StmtFinalTool}

\* the argument of the first call of the sink
FirstSunk ==
    IF code.body[1] = StmtFinalAnswer THEN PyStr("a") ELSE calls[1].result

\* the execution of such a program has produced the argument of the first
\* call of the sink
ReportsFirstSunk ==
    (OnlySinkCalls /\ "classified" \in stages) =>
        /\ sandbox["result_holder"] = FirstSunk
        /\ result_value = FirstSunk
        /\ ~HasErrorFlag(FirstSunk) =>
              /\ outcome.envelope.status = "success"
              /\ outcome.envelope.result = Str(FirstSunk)

\* a value the sink has recorded stays
WriteOnce ==
    sandbox["result_holder"] # Unbound =>
        sandbox'["result_holder"] = sandbox["result_holder"]

\* C34: within an execution the value the sink has recorded is never
\* replaced, and a program that only calls the sink, several times,
\* reports str() of the argument of the first call.
C34_SinkWriteOnce == []ReportsFirstSunk /\ [][WriteOnce]_vars

\* final_answer("a") then final_answer(t(2)): the tool has replied 7, the
\* second call of the sink was made, and the report is a
C34_Witness ==
    /\ code.body = <<StmtFinalAnswer, StmtFinalTool>>
    /\ "classified" \in stages
    /\ Len(calls) = 1
    /\ calls[1].result = PyInt(7)
    /\ outcome.envelope.result = "a"
\* C35: the gate and the deadline go by the calls written in the text: the
\* program that fans out six calls with one parallel(...) is counted as
\* one call, is let through the gate, and runs under the deadline of one
\* call, however many sessions it has open.
C35_CeilingCountsText ==
    (code.body = <<StmtAwaitParallelSix>> /\ "counted" \in stages) =>
        /\ func_count = 1
        /\ "rejected" \notin stages
        /\ "started" \in stages => timeout = TIMEOUT_PER_FUNCTION

\* an accepted program has more sessions open at once than the gate lets a
\* program write calls
C35_Witness ==
    /\ func_count <= MAX_FUNCTIONS
    /\ Cardinality(Live(sessions)) > MAX_FUNCTIONS
    /\ Len(sessions) = 6
    /\ timeout = TIMEOUT_PER_FUNCTION
\* C36: when initialize is over, every tool get_tools_from_servers returns
\* for one server is registered with the config of that server, and every
\* session opened for the name of the tool is opened against that server.
C36_RoutingAgreesWithListing ==
    pc = "serve" =>
        \A i \in 1..Len(server_configs) :
            LET id == server_configs[i].id
                tools == get_tools_from_servers(server_tools, <<id>>)
            IN  \A j \in 1..Len(tools) :
                    /\ tool_map[tools[j].name].config.id = id
                    /\ \A k \in 1..Len(sessions) :
                           sessions[k].tool_name = tools[j].name =>
                               sessions[k].server = id
\* the last GLOBAL_PREVIOUS_FAILURE_STEPS entries of a list
NewestOf(memory) ==
    IF Len(memory) > GLOBAL_PREVIOUS_FAILURE_STEPS
    THEN SubSeq(memory, Len(memory) - GLOBAL_PREVIOUS_FAILURE_STEPS + 1,
                Len(memory))
    ELSE memory

\* execute_step has returned a CODE step whose perception does not report
\* the local goal achieved
StepFailed ==
    /\ at = "execute"
    /\ at' = "evaluate"
    /\ Current.type = "CODE"
    /\ ~Current'.perception.local_goal_achieved

\* the failure memory changes only by the entry of a failed CODE step put
\* last, the oldest entries leaving to keep the limit
MemoryOfFailures ==
    IF StepFailed
    THEN session_memory' =
            NewestOf(session_memory \o
                     <<[query |-> Current.description,
                        result_requirement |-> "Tool failed",
                        solution_summary |->
                            EnvelopeStr(Current'.execution_result)]>>)
    ELSE session_memory' = session_memory

\* C37: the failure memory of a run never holds more than 3 entries; an
\* entry is appended only when a CODE step's perception does not report the
\* local goal achieved, and then it is, last; when the list would exceed 3
\* the oldest entry is evicted.
C37_FailureMemoryBounded ==
    /\ [](Len(session_memory) <= 3)
    /\ [][MemoryOfFailures]_vars

\* four CODE steps have failed, and the entry of the first has left
C37_Witness ==
    /\ Len(session.plan_versions) = 4
    /\ \A v \in 1..4 :
          LET s == session.plan_versions[v].steps[1]
          IN  /\ s.type = "CODE"
              /\ s.perception.k = "PerceptionSnapshot"
              /\ ~s.perception.local_goal_achieved
    /\ Len(session_memory) = 3
    /\ session_memory[1].query # session.plan_versions[1].steps[1].description
    /\ session_memory[1].query = session.plan_versions[2].steps[1].description

\* the plan versions of the session
Versions == session.plan_versions

\* the loop goes on: evaluate_step has returned the step to execute next
Continues == at = "evaluate" /\ at' = "execute"

\* a plan version is the one it was: its lines, and the one Step object it
\* lists, which only execute_step writes to
SamePlan(before, after) ==
    /\ after.plan_text = before.plan_text
    /\ Len(after.steps) = Len(before.steps)
    /\ \A j \in 1..Len(before.steps) :
          /\ after.steps[j].index = before.steps[j].index
          /\ after.steps[j].description = before.steps[j].description
          /\ after.steps[j].type = before.steps[j].type

\* the versions there were are still there, in their places
VersionsKept ==
    /\ Len(Versions') >= Len(Versions)
    /\ \A v \in 1..Len(Versions) : SamePlan(Versions[v], Versions'[v])

\* continuing has appended one version holding one step, not yet run, and
\* the loop holds that step; nothing else in the loop appends a version
OneVersionPerTurn ==
    IF Continues
    THEN /\ Len(Versions') = Len(Versions) + 1
         /\ Len(Versions'[Len(Versions')].steps) = 1
         /\ Versions'[Len(Versions')].steps[1].status = "pending"
         /\ step' = Len(Versions')
    ELSE at # "run" => Len(Versions') = Len(Versions)

\* the step about to be executed is the one step of the newest version
NewestIsCurrent ==
    at = "execute" =>
        /\ step = Len(Versions)
        /\ Len(Versions[step].steps) = 1

\* C38: every iteration of the loop of run that continues with a next step,
\* after a replan or after a locally successful step, has appended exactly
\* one plan version holding exactly that one step, and that step is the one
\* executed next; plan versions are never removed, replaced or reordered.
C38_OnePlanVersionPerTurn ==
    /\ []NewestIsCurrent
    /\ [][VersionsKept /\ OneVersionPerTurn]_vars

\* a third step is about to be executed, after a replan for the first step
\* and after the local success of the second
C38_Witness ==
    /\ at = "execute"
    /\ Len(Versions) = 3
    /\ step = 3
    /\ ~Versions[1].steps[1].perception.local_goal_achieved
    /\ Versions[2].steps[1].perception.local_goal_achieved
    /\ Versions[3].steps[1].status = "pending"

\* the step executed last
LastStep == Versions[Len(Versions)].steps[1]

\* run has stopped executing steps, having been given at least one
Stopped == at \in {"returned", "raised"} /\ Len(Versions) > 0

\* the three grounds on which the loop stops, read off a step
StopGround(s, plan_text) ==
    \/ s.type # "CODE"
    \/ /\ s.perception.k = "PerceptionSnapshot"
       /\ \/ s.perception.original_goal_achieved
          \/ /\ s.perception.local_goal_achieved
             /\ ~(s.index + 1 < Len(plan_text))

\* C39: run stops executing steps exactly when the step just executed is
\* not of type CODE, or perception reports the original goal achieved for
\* it, or perception reports the local goal achieved and step.index + 1 is
\* not below the number of plan lines; with neither goal achieved and a
\* CODE step it goes on to the next plan.
C39_StopsExactlyOnGrounds ==
    /\ [](Stopped => StopGround(LastStep, Versions[Len(Versions)].plan_text))
    /\ [][Continues =>
            ~StopGround(Current, Versions[Len(Versions)].plan_text)]_vars

\* run has returned its session after executing a step
ReturnedOnGround ==
    (at = "returned" /\ Len(Versions) > 0) =>
        StopGround(LastStep, Versions[Len(Versions)].plan_text)

====
